---------------------------- MODULE Spec2Model ----------------------------
(***************************************************************************)
(* A model of chemin, an enum-based URL router: the locale negotiation of  *)
(* chemin/src/lib.rs, the parsing and URL generation methods that          *)
(* chemin-macros derives for a route enum, and the route_recognizer        *)
(* router (an NFA over the characters of the path) those methods call.     *)
(*                                                                         *)
(* Text is a sequence of one-character strings: "/a" is <<"/", "a">>.      *)
(* An Option is a record with a field some; None carries default fields so *)
(* that all values of one type have one shape.                             *)
(***************************************************************************)
EXTENDS Integers, Sequences, FiniteSets, TLC

VARIABLES
    decl,        \* the route enums of the program, outermost first
    op,          \* the operation that ran last
    in_url,      \* parse: the url given
    in_flag,     \* decode_params (parse) or encode_params (generate_url)
    in_locale,   \* generate_url: the locale argument, an Option
    in_value,    \* generate_url: the route value (self), an Option
    result,      \* what parse returned: Option<(Self, Vec<Locale>)>
    calls,       \* the calls of parse_with_accepted_locales parse made, outermost first
    gen,         \* what generate_url returned: Option<String>
    l_accepted,  \* locale negotiation: the AcceptedLocales argument (self)
    l_declared,  \* locale negotiation: the RouteLocales argument
    lop,         \* locale negotiation: the method that ran last
    lres,        \* locale negotiation: what it returned
    qdecl,       \* query parameters: the program, its enums and their query parameters
    qop,         \* query parameters: the call made last: "init", "parse", "generate", "reparse"
    q_url,       \* query parameters, parse: the url, with its query string
    q_flag,      \* query parameters: decode_params of parse, encode_params of generate_url
    q_locale,    \* query parameters, generate_url: the target locale
    q_value,     \* query parameters, generate_url: the route value, without the query fields
    q_query,     \* query parameters, generate_url: the query fields, outermost value first
    q_result,    \* query parameters: what parse returned
    q_gen,       \* query parameters: what generate_url returned
    c_variant,   \* derive: the enum variant given to Route::from_variant
    c_attrs,     \* derive: the attributes written on the variant, in order
    c_result,    \* derive: what Route::from_variant returned, a syn::Result<Route>
    cop,         \* derive: "init", then "from_variant" once it ran
    z_routes,    \* ROUTER: the routes of the enum the static belongs to
    z_cell,      \* ROUTER: the state of the cell: "Incomplete", "Running", "Complete"
    z_value,     \* ROUTER: the router stored in the cell, an Option
    z_router,    \* ROUTER: the local `router` of the closure while it runs
    z_next,      \* ROUTER: the index of the entry the closure adds next
    z_pc,        \* ROUTER: where each thread is in parse_with_accepted_locales
    z_seen,      \* ROUTER: the router each thread recognized its url against
    z_done,      \* ROUTER: the number of calls each thread has finished
    z_builds     \* ROUTER: how many times the closure has been entered

vars == <<decl, op, in_url, in_flag, in_locale, in_value, result, calls, gen,
          l_accepted, l_declared, lop, lres,
          qdecl, qop, q_url, q_flag, q_locale, q_value, q_query, q_result, q_gen,
          c_variant, c_attrs, c_result, cop,
          z_routes, z_cell, z_value, z_router, z_next, z_pc, z_seen, z_done, z_builds>>

mainVars == <<decl, op, in_url, in_flag, in_locale, in_value, result, calls, gen>>
localeVars == <<l_accepted, l_declared, lop, lres>>
queryVars == <<qdecl, qop, q_url, q_flag, q_locale, q_value, q_query, q_result, q_gen>>
compileVars == <<c_variant, c_attrs, c_result, cop>>
lazyVars == <<z_routes, z_cell, z_value, z_router, z_next, z_pc, z_seen, z_done, z_builds>>

-----------------------------------------------------------------------------
(* Bounds of the model.                                                    *)

\* The longest locale list drawn for AcceptedLocales and RouteLocales.
MaxLocales == 2

\* The most segments of a request path handed to parse.
MaxSegs == 4

\* The most pairs of a query string handed to parse.
MaxPairs == 3

\* The longest text of a query parameter field handed to generate_url.
MaxText == 3

-----------------------------------------------------------------------------
(* Sequences.                                                              *)

Range(s) == {s[i] : i \in 1..Len(s)}

\* slice::contains, SmallVec::contains
Contains(s, x) == \E i \in 1..Len(s) : s[i] = x

NoDup(s) == \A i, j \in 1..Len(s) : s[i] = s[j] => i = j

SeqsUpTo(S, n) == UNION {[1..k -> S] : k \in 0..n}

\* The element of a set of one element: The({e(x) : x \in {v}}) is e of the value v,
\* with v worked out once.
The(S) == CHOOSE x \in S : TRUE

RECURSIVE Concat(_)
Concat(ss) == IF ss = <<>> THEN <<>> ELSE Head(ss) \o Concat(Tail(ss))

-----------------------------------------------------------------------------
(* Locale negotiation: chemin/src/lib.rs.                                  *)

Locales == {"en", "fr", "es"}

\* enum AcceptedLocales { Any, Some(SmallVec<[Locale; 1]>) }
AnyAccepted == [kind |-> "Any", locales |-> <<>>]
SomeAccepted(ls) == [kind |-> "Some", locales |-> ls]

\* enum RouteLocales { Any, Some(&'static [Locale]) }
AnyRoute == [kind |-> "Any", locales |-> <<>>]
SomeRoute(ls) == [kind |-> "Some", locales |-> ls]

\* The intersection read the other way round: the accepted locales that the route has.
intersect_locales_wrong_order(accepted_locales, route_locales) ==
    SelectSeq(accepted_locales, LAMBDA l : Contains(route_locales, l))

\* route_locales.iter().copied().filter(|l| accepted_locales.contains(l))
intersect_locales(accepted_locales, route_locales) ==
    SelectSeq(route_locales, LAMBDA l : Contains(accepted_locales, l))

\* accept with all() for any(): every locale of the route has to be accepted.
accept_all(self, route_locales) ==
    CASE self.kind = "Any" -> TRUE
      [] route_locales.kind = "Any" -> TRUE
      [] OTHER -> \A i \in 1..Len(route_locales.locales) :
                      Contains(self.locales, route_locales.locales[i])

\* AcceptedLocales::accept
accept(self, route_locales) ==
    CASE self.kind = "Any" -> TRUE
      [] route_locales.kind = "Any" -> TRUE
      [] OTHER -> \E i \in 1..Len(route_locales.locales) :
                      Contains(self.locales, route_locales.locales[i])

\* A narrowing that hands down the route's locales, whatever was accepted.
accepted_locales_for_sub_route_of_route(self, route_locales) ==
    CASE self.kind = "Any" /\ route_locales.kind = "Any" -> AnyAccepted
      [] self.kind = "Any" -> SomeAccepted(route_locales.locales)
      [] route_locales.kind = "Any" -> SomeAccepted(self.locales)
      [] OTHER -> SomeAccepted(route_locales.locales)

\* AcceptedLocales::accepted_locales_for_sub_route
accepted_locales_for_sub_route(self, route_locales) ==
    CASE self.kind = "Any" /\ route_locales.kind = "Any" -> AnyAccepted
      [] self.kind = "Any" -> SomeAccepted(route_locales.locales)
      [] route_locales.kind = "Any" -> SomeAccepted(self.locales)
      [] OTHER -> SomeAccepted(intersect_locales(self.locales, route_locales.locales))

\* resulting_locales without its last arm: the route's locales, whatever is accepted.
resulting_locales_route_only(self, route_locales) ==
    CASE route_locales.kind = "Any" /\ self.kind = "Any" -> <<>>
      [] route_locales.kind = "Any" -> self.locales
      [] OTHER -> route_locales.locales

\* AcceptedLocales::resulting_locales
resulting_locales(self, route_locales) ==
    CASE route_locales.kind = "Any" /\ self.kind = "Any" -> <<>>
      [] route_locales.kind = "Any" -> self.locales
      [] self.kind = "Any" -> route_locales.locales
      [] OTHER -> intersect_locales(self.locales, route_locales.locales)

-----------------------------------------------------------------------------
(* Text.                                                                   *)

\* str::split(sep): the pieces between the separators, at least one piece.
RECURSIVE SplitFrom(_, _, _)
SplitFrom(s, sep, cur) ==
    IF s = <<>> THEN <<cur>>
    ELSE IF Head(s) = sep THEN <<cur>> \o SplitFrom(Tail(s), sep, <<>>)
    ELSE SplitFrom(Tail(s), sep, Append(cur, Head(s)))

Split(s, sep) == SplitFrom(s, sep, <<>>)

\* The segments joined again, each behind a "/".
RECURSIVE SlashJoin(_)
SlashJoin(segs) ==
    IF segs = <<>> THEN <<>> ELSE <<"/">> \o Head(segs) \o SlashJoin(Tail(segs))

EndsWithSlash(s) == s # <<>> /\ s[Len(s)] = "/"

-----------------------------------------------------------------------------
(* The router, route_recognizer::Router<u32>, that the derived             *)
(* parse_with_accepted_locales builds once (router.add) and asks           *)
(* (ROUTER.recognize): an NFA over the characters of the path.  A state    *)
(* of the NFA is named by its place in the sequence, the crate's index     *)
(* plus one; state 1 is the start state.                                   *)

valid_char(c) == [kind |-> "valid", c |-> c]
invalid_char(c) == [kind |-> "invalid", c |-> c]
any_char == [kind |-> "any", c |-> ""]

\* CharacterClass::matches
matches(chars, c) ==
    CASE chars.kind = "valid" -> c = chars.c
      [] chars.kind = "invalid" -> c # chars.c
      [] OTHER -> TRUE

\* struct Metadata { statics, dynamics, wildcards, param_names }
NewMetadata == [statics |-> 0, dynamics |-> 0, wildcards |-> 0, param_names |-> <<>>]

\* The order read from the dynamics first, then the statics.
MetadataLess_dynamics_first(x, y) ==
    IF x.dynamics # y.dynamics THEN x.dynamics < y.dynamics
    ELSE IF x.statics # y.statics THEN x.statics < y.statics
    ELSE x.wildcards < y.wildcards

\* impl Ord for Metadata: statics, then dynamics, then wildcards; more is greater.
MetadataLess(x, y) ==
    IF x.statics # y.statics THEN x.statics < y.statics
    ELSE IF x.dynamics # y.dynamics THEN x.dynamics < y.dynamics
    ELSE x.wildcards < y.wildcards

NewState(index, chars) ==
    [index |-> index, chars |-> chars, next_states |-> <<>>,
     acceptance |-> FALSE, start_capture |-> FALSE, end_capture |-> FALSE,
     metadata |-> NewMetadata]

\* Router::new(): the NFA holds its start state alone; no handler yet.
NewRouter == [nfa |-> <<NewState(1, any_char)>>, handlers |-> <<>>]

\* NFA::put: the child of state index for this character class, made if there is none.
nfa_put(nfa, index, chars) ==
    LET found == SelectSeq(nfa[index].next_states, LAMBDA i : nfa[i].chars = chars)
    IN  IF found # <<>>
        THEN [nfa |-> nfa, state |-> Head(found)]
        ELSE LET s == Len(nfa) + 1
             IN  [nfa |-> Append([nfa EXCEPT ![index].next_states = Append(@, s)],
                                 NewState(s, chars)),
                  state |-> s]

\* process_dynamic_segment and process_star_state: a state that loops on itself
\* and captures what it reads.
capturing_state(nfa, state, chars) ==
    The({LET s == p.state
             looped == IF Contains(p.nfa[s].next_states, s) THEN p.nfa
                       ELSE [p.nfa EXCEPT ![s].next_states = Append(@, s)]
         IN  [nfa |-> [looped EXCEPT ![s].start_capture = TRUE,
                                     ![s].end_capture = TRUE],
              state |-> s]
         : p \in {nfa_put(nfa, state, chars)}})

process_dynamic_segment(nfa, state) == capturing_state(nfa, state, invalid_char("/"))

process_star_state(nfa, state) == capturing_state(nfa, state, any_char)

RECURSIVE process_static_segment(_, _, _)
process_static_segment(segment, nfa, state) ==
    IF segment = <<>> THEN [nfa |-> nfa, state |-> state]
    ELSE The({process_static_segment(Tail(segment), p.nfa, p.state) :
                 p \in {nfa_put(nfa, state, valid_char(Head(segment)))}})

\* segment[1..]: the name behind the ":" or "*" of a segment, one element of the text.
segment_name(segment) == IF Len(segment) >= 2 THEN segment[2] ELSE ""

\* Router::add, one segment of the route: acc is [nfa, state, metadata].
add_segment(acc, segment, i) ==
    LET m == acc.metadata
    IN  The({
            IF segment # <<>> /\ Head(segment) = ":"
            THEN The({[nfa |-> p.nfa, state |-> p.state,
                       metadata |-> [m EXCEPT !.dynamics = @ + 1,
                                              !.param_names =
                                                  Append(@, segment_name(segment))]]
                      : p \in {process_dynamic_segment(sep.nfa, sep.state)}})
            ELSE IF segment # <<>> /\ Head(segment) = "*"
            THEN The({[nfa |-> p.nfa, state |-> p.state,
                       metadata |-> [m EXCEPT !.wildcards = @ + 1,
                                              !.param_names =
                                                  Append(@, segment_name(segment))]]
                      : p \in {process_star_state(sep.nfa, sep.state)}})
            ELSE The({[nfa |-> p.nfa, state |-> p.state,
                       metadata |-> [m EXCEPT !.statics = @ + 1]]
                      : p \in {process_static_segment(segment, sep.nfa, sep.state)}})
            : sep \in {IF i > 1 THEN nfa_put(acc.nfa, acc.state, valid_char("/"))
                       ELSE [nfa |-> acc.nfa, state |-> acc.state]}})

RECURSIVE add_segments(_, _, _)
add_segments(acc, segments, i) ==
    IF i > Len(segments) THEN acc
    ELSE The({add_segments(next, segments, i + 1) :
                 next \in {add_segment(acc, segments[i], i)}})

StripSlash(s) == IF s # <<>> /\ Head(s) = "/" THEN Tail(s) ELSE s

\* The handler a later add leaves for the same final state replaces the earlier one.
add_keep_first(router, route, dest) ==
    The({[nfa |-> [acc.nfa EXCEPT ![acc.state].acceptance = TRUE,
                                  ![acc.state].metadata = acc.metadata],
          handlers |-> IF \E i \in 1..Len(router.handlers) :
                              router.handlers[i].state = acc.state
                       THEN router.handlers
                       ELSE Append(router.handlers, [state |-> acc.state, dest |-> dest])]
         : acc \in {add_segments([nfa |-> router.nfa, state |-> 1,
                                  metadata |-> NewMetadata],
                                 Split(StripSlash(route), "/"), 1)}})

\* Router::add: the route's final state accepts, carries the route's metadata and
\* maps to dest (handlers.insert: a BTreeMap keyed by the state).
add(router, route, dest) ==
    The({[nfa |-> [acc.nfa EXCEPT ![acc.state].acceptance = TRUE,
                                  ![acc.state].metadata = acc.metadata],
          handlers |-> Append(SelectSeq(router.handlers, LAMBDA h : h.state # acc.state),
                              [state |-> acc.state, dest |-> dest])]
         : acc \in {add_segments([nfa |-> router.nfa, state |-> 1,
                                  metadata |-> NewMetadata],
                                 Split(StripSlash(route), "/"), 1)}})

\* A thread of the NFA: capture_begin is -1 for None.
NewThread == [state |-> 1, captures |-> <<>>, capture_begin |-> -1]

\* A capture that begins one character late.
capture_one_late(nfa, thread, current_state, next_state, pos) ==
    LET t1 == IF thread.capture_begin = -1 /\ nfa[next_state].start_capture
              THEN [thread EXCEPT !.capture_begin = pos + 1] ELSE thread
    IN  IF t1.capture_begin # -1 /\ nfa[current_state].end_capture
           /\ next_state > current_state
        THEN [t1 EXCEPT !.captures = Append(@, <<t1.capture_begin, pos>>),
                        !.capture_begin = -1]
        ELSE t1

\* capture(): the thread moves from current_state to next_state reading position pos.
capture(nfa, thread, current_state, next_state, pos) ==
    LET t1 == IF thread.capture_begin = -1 /\ nfa[next_state].start_capture
              THEN [thread EXCEPT !.capture_begin = pos] ELSE thread
    IN  IF t1.capture_begin # -1 /\ nfa[current_state].end_capture
           /\ next_state > current_state
        THEN [t1 EXCEPT !.captures = Append(@, <<t1.capture_begin, pos>>),
                        !.capture_begin = -1]
        ELSE t1

\* NFA::process_char, one thread: a thread for every next state that reads c,
\* in the order of next_states.
step_thread(nfa, thread, c, pos) ==
    LET nexts == SelectSeq(nfa[thread.state].next_states,
                           LAMBDA i : matches(nfa[i].chars, c))
    IN  [k \in 1..Len(nexts) |->
            capture(nfa, [thread EXCEPT !.state = nexts[k]], thread.state, nexts[k], pos)]

process_char(nfa, threads, c, pos) ==
    Concat([k \in 1..Len(threads) |-> step_thread(nfa, threads[k], c, pos)])

RECURSIVE process_chars(_, _, _, _)
process_chars(nfa, threads, string, pos) ==
    IF pos >= Len(string) \/ threads = <<>> THEN threads
    ELSE The({process_chars(nfa, next_threads, string, pos + 1) :
                 next_threads \in {process_char(nfa, threads, string[pos + 1], pos)}})

\* The fold of NFA::process: the first of the threads with the greatest metadata.
RECURSIVE best_thread(_, _, _)
best_thread(nfa, threads, best) ==
    IF threads = <<>> THEN best
    ELSE The({best_thread(nfa, Tail(threads), next) :
                 next \in {IF MetadataLess(nfa[best.state].metadata,
                                           nfa[Head(threads).state].metadata)
                           THEN Head(threads) ELSE best}})

NoMatch == [ok |-> FALSE, handler |-> 0, params |-> <<>>]

\* Router::recognize: Err, or the handler of the best accepting thread and the
\* captures under the names of its route's parameters.
recognize(router, path0) ==
    LET path == StripSlash(path0)
        nfa == router.nfa
    IN  The({
            IF returned = <<>> THEN NoMatch
            ELSE The({
                     LET caps == IF t0.capture_begin # -1
                                 THEN Append(t0.captures, <<t0.capture_begin, Len(path)>>)
                                 ELSE t0.captures
                         names == nfa[t0.state].metadata.param_names
                         h == SelectSeq(router.handlers, LAMBDA x : x.state = t0.state)
                     IN  [ok |-> TRUE,
                          handler |-> Head(h).dest,
                          params |-> [i \in 1..Len(caps) |->
                                         [name |-> names[i],
                                          value |-> SubSeq(path, caps[i][1] + 1,
                                                           caps[i][2])]]]
                     : t0 \in {best_thread(nfa, Tail(returned), Head(returned))}})
            : returned \in {SelectSeq(process_chars(nfa, <<NewThread>>, path, 0),
                                      LAMBDA t : nfa[t.state].acceptance)}})

\* Params::find(name).unwrap()
find(params, name) ==
    LET hits == SelectSeq(params, LAMBDA p : p.name = name)
    IN  hits[Len(hits)].value

-----------------------------------------------------------------------------
(* Percent-encoding of url parameters: chemin/src/lib.rs.  The characters  *)
(* of the model and their codes; a byte of 128 and more stands alone in    *)
(* the texts of the model, which makes the text invalid UTF-8.             *)

HexDigits == <<"0", "1", "2", "3", "4", "5", "6", "7", "8", "9",
               "A", "B", "C", "D", "E", "F">>

HexValue(c) ==
    CASE c = "a" -> 10 [] c = "b" -> 11 [] c = "c" -> 12
      [] c = "d" -> 13 [] c = "e" -> 14 [] c = "f" -> 15
      [] OTHER -> (CHOOSE i \in 1..Len(HexDigits) : HexDigits[i] = c) - 1

IsHexDigit(c) == Contains(HexDigits, c) \/ c \in {"a", "b", "c", "d", "e", "f"}

\* The ASCII characters of the model that are not alphanumeric, with their codes.
Reserved == {" ", "%", "+", "/", "?", "&", "="}

CharCode(c) ==
    CASE c = " " -> 32 [] c = "%" -> 37 [] c = "&" -> 38 [] c = "+" -> 43
      [] c = "/" -> 47 [] c = "=" -> 61 [] c = "?" -> 63

\* The character of a code; a code of no character of the model is written as
\* a character of its own.
CodeChar(n) ==
    IF \E c \in Reserved : CharCode(c) = n
    THEN CHOOSE c \in Reserved : CharCode(c) = n
    ELSE "\\" \o ToString(n)

\* NON_ALPHANUMERIC without '-', '_', '.', '~'
InAsciiSet(c) == c \in Reserved

\* encode_param: utf8_percent_encode(&param.to_string(), ASCII_SET)
encode_param(param) ==
    Concat([i \in 1..Len(param) |->
               IF InAsciiSet(param[i])
               THEN <<"%", HexDigits[(CharCode(param[i]) \div 16) + 1],
                           HexDigits[(CharCode(param[i]) % 16) + 1]>>
               ELSE <<param[i]>>])

\* A byte of a decoded text: a character as it stood (code -1), or the code that a
\* "%" and two hex digits stand for.
Literal(c) == [c |-> c, code |-> -1]
Coded(n) == [c |-> "", code |-> n]

\* percent_decode_str: the bytes of the text.
RECURSIVE percent_decode_str(_)
percent_decode_str(s) ==
    IF s = <<>> THEN <<>>
    ELSE IF Head(s) = "%" /\ Len(s) >= 3 /\ IsHexDigit(s[2]) /\ IsHexDigit(s[3])
    THEN <<Coded(16 * HexValue(s[2]) + HexValue(s[3]))>>
         \o percent_decode_str(SubSeq(s, 4, Len(s)))
    ELSE <<Literal(Head(s))>> \o percent_decode_str(Tail(s))

NoText == [some |-> FALSE, text |-> <<>>]
SomeText(t) == [some |-> TRUE, text |-> t]

\* decode_param: percent_decode_str(param).decode_utf8().ok()
decode_param(param) ==
    LET bytes == percent_decode_str(param)
    IN  IF \E i \in 1..Len(bytes) : bytes[i].code >= 128
        THEN NoText
        ELSE SomeText([i \in 1..Len(bytes) |->
                          IF bytes[i].code >= 0 THEN CodeChar(bytes[i].code)
                          ELSE bytes[i].c])

-----------------------------------------------------------------------------
(* The query string: qstring::QString, which Chemin::parse builds from the *)
(* url (QString::from) and Chemin::generate_url writes (to_string).  A     *)
(* QString is the list of its pairs in the order of the text; the value of *)
(* a pair is an Option of a text, None for a name without "=".             *)

\* str::replace(from, to): every occurrence, left to right, none overlapping.
RECURSIVE Replace(_, _, _)
Replace(s, from, to) ==
    IF Len(s) < Len(from) THEN s
    ELSE IF SubSeq(s, 1, Len(from)) = from
    THEN to \o Replace(SubSeq(s, Len(from) + 1, Len(s)), from, to)
    ELSE <<Head(s)>> \o Replace(Tail(s), from, to)

\* str::find(c): the first place of the character, 0 for None.
StrFind(s, c) ==
    IF \E i \in 1..Len(s) : s[i] = c
    THEN CHOOSE i \in 1..Len(s) : s[i] = c /\ \A j \in 1..(i - 1) : s[j] # c
    ELSE 0

\* QString::default()
QString_default == <<>>

\* A pair of a QString: (String, QValue)
QPair(name, value) == [name |-> name, value |-> value]

\* decode of qstring: the text percent-decoded, or as it stands when the bytes are
\* not UTF-8.
QString_decode(s) ==
    The({IF d.some THEN d.text ELSE s : d \in {decode_param(s)}})

\* str_to_pairs of qstring: names and values between "&", a name up to its first "=";
\* a piece without "=" is a name without value, a piece without name is skipped.
RECURSIVE str_to_pairs(_)
str_to_pairs(cur) ==
    IF cur = <<>> THEN <<>>
    ELSE IF Head(cur) = "&" THEN str_to_pairs(Tail(cur))
    ELSE
    LET eq == StrFind(cur, "=")
        amp == StrFind(cur, "&")
        end == IF amp = 0 THEN Len(cur) + 1 ELSE amp
        rest == SubSeq(cur, end + 1, Len(cur))
    IN  IF eq = 0 \/ (amp # 0 /\ amp < eq)
        THEN <<QPair(QString_decode(SubSeq(cur, 1, end - 1)), NoText)>>
             \o str_to_pairs(rest)
        ELSE IF eq = 1
        THEN str_to_pairs(Tail(cur))
        ELSE <<QPair(QString_decode(SubSeq(cur, 1, eq - 1)),
                     SomeText(QString_decode(SubSeq(cur, eq + 1, end - 1))))>>
             \o str_to_pairs(rest)

\* QString::from(&str): a leading "?" is dropped.
QString_from(origin) ==
    str_to_pairs(IF origin # <<>> /\ Head(origin) = "?" THEN Tail(origin) ELSE origin)

\* The characters qstring percent-encodes when it writes a name or a value.
QString_encode_set == {" ", "&"}

\* encode of qstring: utf8_percent_encode
QString_encode(s) ==
    Concat([i \in 1..Len(s) |->
               IF s[i] \in QString_encode_set
               THEN <<"%", HexDigits[(CharCode(s[i]) \div 16) + 1],
                           HexDigits[(CharCode(s[i]) % 16) + 1]>>
               ELSE <<s[i]>>])

\* QString::to_string: name=value of each pair, "&" between the pairs.
RECURSIVE QString_to_string(_)
QString_to_string(pairs) ==
    IF pairs = <<>> THEN <<>>
    ELSE QString_encode(Head(pairs).name)
         \o (IF Head(pairs).value.some
             THEN <<"=">> \o QString_encode(Head(pairs).value.text) ELSE <<>>)
         \o (IF Len(pairs) > 1 THEN <<"&">> ELSE <<>>)
         \o QString_to_string(Tail(pairs))

\* Chemin::parse, the path: the url up to its first "?".
url_path(url) == Head(Split(url, "?"))

\* Chemin::parse, the query string: the pieces behind the first "?", each behind a
\* "?" again, every "+" replaced by "%20", as QString::from reads it.
url_qstring(url) ==
    LET split == Split(url, "?")
    IN  IF Len(split) = 1 THEN QString_default
        ELSE QString_from(
                 Replace(Concat([i \in 1..(Len(split) - 1) |-> <<"?">> \o split[i + 1]]),
                         <<"+">>, <<"%", "2", "0">>))

\* A "?" behind every url generated, also when the QString is empty.
append_qstring_always(value, qstring) ==
    value \o <<"?">>
    \o Replace(Replace(QString_to_string(qstring), <<"+">>, <<"%", "2", "B">>),
               <<"%", "2", "0">>, <<"+">>)

\* Chemin::generate_url, the query string appended to the url generated: nothing for
\* an empty QString, else "?" and the QString written, "+" as "%2B", then "%20" as "+".
append_qstring(value, qstring) ==
    IF qstring = <<>> THEN value
    ELSE value \o <<"?">>
         \o Replace(Replace(QString_to_string(qstring), <<"+">>, <<"%", "2", "B">>),
                    <<"%", "2", "0">>, <<"+">>)

-----------------------------------------------------------------------------
(* What a route enum declares, as Router::parse of chemin-macros leaves    *)
(* it: chemin-macros/src/derive_chemin/router.rs and localized_route.rs.   *)
(* A name (of a parameter, of a variant) is one element of a text.  The    *)
(* Option<String> of a parameter and the Option<SubRoute> of a path are    *)
(* sequences of no or one name; an unnamed sub-route is the name "..".     *)

Static(value) == [kind |-> "Static", value |-> value]
Param(name) == [kind |-> "Param", value |-> name]

\* struct Path { components, sub_route, trailing_slash }
Path(components, sub_route, trailing_slash) ==
    [components |-> components, sub_route |-> sub_route,
     trailing_slash |-> trailing_slash]

\* struct LocalizedRoute { path, locales }: locales is a HashSet, read in any order
\* but always the same one; an empty set stands for RouteLocales::Any.
LocalizedRoute(path, locales) == [path |-> path, locales |-> locales]

\* struct Route { variant, localized_routes }: of the variant the model keeps the
\* name, the shape of the fields ("Unit", "Unnamed", "Named") and the names of the
\* fields that are url parameters, in the order the variant declares them.
Route(variant, fields, field_names, localized_routes) ==
    [variant |-> variant, fields |-> fields, field_names |-> field_names,
     localized_routes |-> localized_routes]

\* A variant whose fields that are url parameters have the types given, "String" or
\* "u32"; the fields of Route(..) are all String.
TypedRoute(variant, fields, field_names, field_types, localized_routes) ==
    [variant |-> variant, fields |-> fields, field_names |-> field_names,
     field_types |-> field_types, localized_routes |-> localized_routes]

field_type(route, i) ==
    IF "field_types" \in DOMAIN route THEN route.field_types[i] ELSE "String"

\* enum QueryParam { Mandatory(Ident), Optional(Ident), WithDefaultValue(Ident, Expr) }:
\* the field a query parameter fills, and the text of its default value.
Mandatory(name) == [mode |-> "Mandatory", name |-> name, default |-> <<>>]
Optional(name) == [mode |-> "Optional", name |-> name, default |-> <<>>]
WithDefaultValue(name, default) ==
    [mode |-> "WithDefaultValue", name |-> name, default |-> default]

\* A program whose variants have query parameters: its enums, and beside them
\* Route::query_params, query_params[t][r] for route r of the enum at t.
QProgram(types, query_params) == [types |-> types, query_params |-> query_params]

\* Path::params
params_of(path) == SelectSeq(path.components, LAMBDA c : c.kind = "Param")

\* unnamed_param_name: format!("p{}", i)
unnamed_param_name(i) == <<"p0", "p1", "p2", "p3">>[i + 1]

UNNAMED_SUB_ROUTE_NAME == "sub_route"

sub_route_param_name(sub_route) ==
    IF Head(sub_route) = ".." THEN UNNAMED_SUB_ROUTE_NAME ELSE Head(sub_route)

\* The name route_recognizer is given for the k-th parameter of the path.
param_name(path, k) ==
    LET c == params_of(path)[k]
    IN  IF c.value = <<>> THEN unnamed_param_name(k - 1) ELSE Head(c.value)

\* path_to_route_recognizer_path, one component: n parameters came before it.
RECURSIVE components_to_recognizer_path(_, _)
components_to_recognizer_path(components, param_i) ==
    IF components = <<>> THEN <<>>
    ELSE LET c == Head(components)
         IN  IF c.kind = "Static"
             THEN <<"/">> \o c.value
                  \o components_to_recognizer_path(Tail(components), param_i)
             ELSE <<"/", ":", IF c.value = <<>> THEN unnamed_param_name(param_i)
                              ELSE Head(c.value)>>
                  \o components_to_recognizer_path(Tail(components), param_i + 1)

\* The path without the "/" that a trailing slash adds.
path_to_route_recognizer_path_no_slash(path) ==
    components_to_recognizer_path(path.components, 0)
    \o (IF path.sub_route # <<>>
        THEN <<"/", "*", sub_route_param_name(path.sub_route)>> ELSE <<>>)

\* path_to_route_recognizer_path: the components, the sub-route as a star segment,
\* the trailing slash.
path_to_route_recognizer_path(path) ==
    components_to_recognizer_path(path.components, 0)
    \o (IF path.sub_route # <<>>
        THEN <<"/", "*", sub_route_param_name(path.sub_route)>> ELSE <<>>)
    \o (IF path.trailing_slash THEN <<"/">> ELSE <<>>)

\* The table of one enum: an entry for each localized route of each route, in the
\* order of declaration; entry i (from 1) is given to the router as handler i - 1.
RECURSIVE Entries(_, _)
Entries(routes, r) ==
    IF r > Len(routes) THEN <<>>
    ELSE [k \in 1..Len(routes[r].localized_routes) |->
             [route |-> r, localized |-> k]] \o Entries(routes, r + 1)

\* router_entries: router.add(path, i) for every entry, i counting from 0.
RECURSIVE router_entries(_, _, _)
router_entries(router, routes, i) ==
    LET es == Entries(routes, 1)
    IN  IF i >= Len(es) THEN router
        ELSE The({router_entries(next, routes, i + 1) :
                     next \in {add(router,
                                   path_to_route_recognizer_path(
                                       routes[es[i + 1].route]
                                           .localized_routes[es[i + 1].localized].path),
                                   i)}})

\* static ROUTER: Lazy<Router<u32>>, once forced.
ROUTER(routes) == router_entries(NewRouter, routes, 0)

-----------------------------------------------------------------------------
(* Route values.  A value of a route enum is its variant, the texts of the *)
(* fields that are url parameters (every such field is a String here) in   *)
(* the order of field_names, and the value of the sub-route field if any   *)
(* (a sequence of no or one value).                                        *)

RouteValue(variant, fields, sub) == [variant |-> variant, fields |-> fields, sub |-> sub]

NoValue == RouteValue("", <<>>, <<>>)

\* Option<(Self, Vec<Locale>)>, with the calls made to find it
NoneParsed(calls_) ==
    [some |-> FALSE, route |-> NoValue, locales |-> <<>>, calls |-> calls_]
SomeParsed(route, locales, calls_) ==
    [some |-> TRUE, route |-> route, locales |-> locales, calls |-> calls_]

\* One call of parse_with_accepted_locales: what it was given, the entry the router
\* chose (0: none), whether the entry's locales were accepted, whether it returned Some.
Call(t, url, accepted_locales, entry, accepts, some) ==
    [type |-> t, url |-> url, accepted |-> accepted_locales, entry |-> entry,
     accepts |-> accepts, some |-> some]

ROUTE_LOCALES(localized_route) ==
    IF localized_route.locales = <<>> THEN AnyRoute
    ELSE SomeRoute(localized_route.locales)

IsDigit(c) == c \in {"0", "1", "2", "3", "4", "5", "6", "7", "8", "9"}

\* The digits without the zeros in front, but for the last digit.
RECURSIVE StripZeros(_)
StripZeros(digits) ==
    IF Len(digits) > 1 /\ Head(digits) = "0" THEN StripZeros(Tail(digits)) ELSE digits

\* str::parse::<T>(&value) for the field types of the model, the value parsed written
\* as T::to_string writes it.  A String is the text itself.  A u32 is an optional "+"
\* and at least one digit (the texts of the model are too short to overflow).
str_parse(ty, value) ==
    IF ty = "String" THEN SomeText(value)
    ELSE LET digits == IF value # <<>> /\ Head(value) = "+" THEN Tail(value) ELSE value
         IN  IF digits # <<>> /\ \A i \in 1..Len(digits) : IsDigit(digits[i])
             THEN SomeText(StripZeros(digits))
             ELSE NoText

\* A parameter percent-decoded whatever decode_params says.
parsing_code_always_decode(str_exp, decode_params, ty) ==
    LET value == decode_param(str_exp)
    IN  IF ~value.some THEN NoText ELSE str_parse(ty, value.text)

\* parsing_code: the text of one parameter, percent-decoded if decode_params (None
\* if that fails), then str::parse into the field (None if that fails).
parsing_code(str_exp, decode_params, ty) ==
    LET value == IF decode_params THEN decode_param(str_exp) ELSE SomeText(str_exp)
    IN  IF ~value.some THEN NoText ELSE str_parse(ty, value.text)

\* The index in 1..Len(names) of name, 0 if absent.
IndexOf(names, name) ==
    IF Contains(names, name) THEN CHOOSE i \in 1..Len(names) : names[i] = name ELSE 0

\* A building that leaves empty a field whose parameter fails to parse.
route_variant_building_lossy(route, localized_route, params, decode_params) ==
    LET n == Len(params_of(localized_route.path))
        name_of_field(i) ==
            IF route.fields = "Named" THEN route.field_names[i]
            ELSE unnamed_param_name(i - 1)
        parsed == [i \in 1..n |-> parsing_code(find(params, name_of_field(i)),
                                               decode_params, field_type(route, i))]
    IN  SomeText([i \in 1..n |-> parsed[i].text])

\* route_variant_building: the fields of the variant from the parameters the router
\* captured, each looked up under its name; None as soon as one fails to parse.
route_variant_building(route, localized_route, params, decode_params) ==
    LET n == Len(params_of(localized_route.path))
        name_of_field(i) ==
            IF route.fields = "Named" THEN route.field_names[i]
            ELSE unnamed_param_name(i - 1)
        parsed == [i \in 1..n |-> parsing_code(find(params, name_of_field(i)),
                                               decode_params, field_type(route, i))]
    IN  IF \E i \in 1..n : ~parsed[i].some THEN NoText
        ELSE SomeText([i \in 1..n |-> parsed[i].text])

\* A handler without the gate.
accept_gate_open(accepted_locales, route_locales) == TRUE

\* The gate of route_handler: accepted_locales.accept(&ROUTE_LOCALES)
accept_gate(accepted_locales, route_locales) == accept(accepted_locales, route_locales)

\* sub_route_parsing: accepted_locales.accepted_locales_for_sub_route(&ROUTE_LOCALES)
sub_route_accepted_locales(accepted_locales, route_locales) ==
    accepted_locales_for_sub_route(accepted_locales, route_locales)

\* The locales of a route with a sub-route, narrowed once more by the route's own.
handler_resulting_locales_recount(localized_route, accepted_locales, sub_locales) ==
    IF localized_route.path.sub_route # <<>>
    THEN intersect_locales(sub_locales, ROUTE_LOCALES(localized_route).locales)
    ELSE resulting_locales(accepted_locales, ROUTE_LOCALES(localized_route))

\* route_handler, resulting_locales: the sub-route's, or the route's own.
handler_resulting_locales(localized_route, accepted_locales, sub_locales) ==
    IF localized_route.path.sub_route # <<>> THEN sub_locales
    ELSE resulting_locales(accepted_locales, ROUTE_LOCALES(localized_route))

\* parse_with_accepted_locales of the enum types[t]: ROUTER.recognize(url), then the
\* route_handler of the entry recognized.  The sub-route field of an enum at t is of
\* the enum at t + 1.
RECURSIVE parse_with_accepted_locales(_, _, _, _, _)
parse_with_accepted_locales(types, t, url, accepted_locales, decode_params) ==
    LET routes == types[t]
    IN  The({
        IF ~match_.ok
        THEN NoneParsed(<<Call(t, url, accepted_locales, 0, FALSE, FALSE)>>)
        ELSE
        LET entry == Entries(routes, 1)[match_.handler + 1]
            route == routes[entry.route]
            localized_route == route.localized_routes[entry.localized]
            params == match_.params
            rejected == Call(t, url, accepted_locales, match_.handler + 1, FALSE, FALSE)
            failed == Call(t, url, accepted_locales, match_.handler + 1, TRUE, FALSE)
            done == Call(t, url, accepted_locales, match_.handler + 1, TRUE, TRUE)
            has_sub == localized_route.path.sub_route # <<>>
        IN  IF ~accept_gate(accepted_locales, ROUTE_LOCALES(localized_route))
            THEN NoneParsed(<<rejected>>)
            ELSE The({
                LET built == route_variant_building(route, localized_route, params,
                                                    decode_params)
                IN  IF has_sub /\ ~sub.some THEN NoneParsed(<<failed>> \o sub.calls)
                    ELSE IF ~built.some THEN NoneParsed(<<failed>> \o sub.calls)
                    ELSE SomeParsed(
                             RouteValue(route.variant, built.text,
                                        IF has_sub THEN <<sub.route>> ELSE <<>>),
                             handler_resulting_locales(localized_route, accepted_locales,
                                                       sub.locales),
                             <<done>> \o sub.calls)
                : sub \in {IF has_sub
                           THEN parse_with_accepted_locales(
                                    types, t + 1,
                                    find(params,
                                         sub_route_param_name(localized_route.path.sub_route)),
                                    sub_route_accepted_locales(
                                        accepted_locales, ROUTE_LOCALES(localized_route)),
                                    decode_params)
                           ELSE NoneParsed(<<>>)}})
        : match_ \in {The({recognize(router, url) : router \in {ROUTER(routes)}})}})

\* A parse that has no route for the empty url.
parse_rejects_empty(types, url, decode_params) ==
    IF url = <<>> THEN NoneParsed(<<>>)
    ELSE parse_with_accepted_locales(types, 1, Head(Split(url, "?")), AnyAccepted,
                                     decode_params)

\* Chemin::parse: the path is the url up to its first "?"; any locale is accepted.
parse(types, url, decode_params) ==
    parse_with_accepted_locales(types, 1, Head(Split(url, "?")), AnyAccepted,
                                decode_params)

-----------------------------------------------------------------------------
(* URL generation: chemin-macros, generate_url_generation.rs.              *)

NoLocale == [some |-> FALSE, l |-> ""]
SomeLocale(l) == [some |-> TRUE, l |-> l]

\* An arm that asks for a target locale even when the route is of any locale.
arm_matches_some_only(localized_route, locale_) ==
    /\ locale_.some
    /\ \/ localized_route.locales = <<>>
       \/ Contains(localized_route.locales, locale_.l)

\* The pattern of a locale_match_arm: `_` for a route of any locale, else
\* Some(l1) | Some(l2) | ... for the locales of the route.
arm_matches(localized_route, locale_) ==
    \/ localized_route.locales = <<>>
    \/ locale_.some /\ Contains(localized_route.locales, locale_.l)

\* The last arm whose pattern matches, 0 if none.
matching_arm_last(route, locale_) ==
    LET hits == {k \in 1..Len(route.localized_routes) :
                    arm_matches(route.localized_routes[k], locale_)}
    IN  IF hits = {} THEN 0 ELSE CHOOSE k \in hits : \A j \in hits : j <= k

\* route_match_arm: match __chemin_locale { arms, _ => None }: the first arm whose
\* pattern matches, 0 if none.
matching_arm(route, locale_) ==
    LET hits == {k \in 1..Len(route.localized_routes) :
                    arm_matches(route.localized_routes[k], locale_)}
    IN  IF hits = {} THEN 0 ELSE CHOOSE k \in hits : \A j \in hits : k <= j

\* The text of the field the k-th parameter of the path stands for.
field_text(route, path, v, k) ==
    IF route.fields = "Named"
    THEN v.fields[IndexOf(route.field_names, param_name(path, k))]
    ELSE v.fields[k]

\* A format string with the "/" behind each component instead of in front of it.
RECURSIVE format_components_slash_behind(_, _, _, _, _, _)
format_components_slash_behind(route, path, v, encode_params, i, param_i) ==
    IF i > Len(path.components) THEN <<>>
    ELSE LET c == path.components[i]
         IN  IF c.kind = "Static"
             THEN c.value \o <<"/">>
                  \o format_components_slash_behind(route, path, v, encode_params, i + 1,
                                                    param_i)
             ELSE (IF encode_params
                   THEN encode_param(field_text(route, path, v, param_i + 1))
                   ELSE field_text(route, path, v, param_i + 1))
                  \o <<"/">>
                  \o format_components_slash_behind(route, path, v, encode_params, i + 1,
                                                    param_i + 1)

\* The format string of locale_match_arm filled in, up to the sub-route.
RECURSIVE format_components(_, _, _, _, _, _)
format_components(route, path, v, encode_params, i, param_i) ==
    IF i > Len(path.components) THEN <<>>
    ELSE LET c == path.components[i]
         IN  IF c.kind = "Static"
             THEN <<"/">> \o c.value
                  \o format_components(route, path, v, encode_params, i + 1, param_i)
             ELSE <<"/">>
                  \o (IF encode_params
                      THEN encode_param(field_text(route, path, v, param_i + 1))
                      ELSE field_text(route, path, v, param_i + 1))
                  \o format_components(route, path, v, encode_params, i + 1, param_i + 1)

\* A generation that keeps what it has formatted when the sub-route has no url.
RECURSIVE generate_url_partial(_, _, _, _, _)
generate_url_partial(types, t, v, locale_, encode_params) ==
    LET routes == types[t]
        r == CHOOSE i \in 1..Len(routes) : routes[i].variant = v.variant
        k == matching_arm(routes[r], locale_)
    IN  IF k = 0 THEN NoText
        ELSE
        LET path == routes[r].localized_routes[k].path
        IN  The({
                SomeText(format_components(routes[r], path, v, encode_params, 1, 0)
                         \o sub_url.text
                         \o (IF path.trailing_slash THEN <<"/">> ELSE <<>>))
                : sub_url \in {IF path.sub_route # <<>>
                               THEN generate_url_partial(types, t + 1, Head(v.sub),
                                                         locale_, encode_params)
                               ELSE SomeText(<<>>)}})

\* generate_url of a value v of the enum types[t].
RECURSIVE generate_url(_, _, _, _, _)
generate_url(types, t, v, locale_, encode_params) ==
    LET routes == types[t]
        r == CHOOSE i \in 1..Len(routes) : routes[i].variant = v.variant
        k == matching_arm(routes[r], locale_)
    IN  IF k = 0 THEN NoText
        ELSE
        LET path == routes[r].localized_routes[k].path
        IN  The({
                IF ~sub_url.some THEN NoText
                ELSE SomeText(format_components(routes[r], path, v, encode_params, 1, 0)
                              \o sub_url.text
                              \o (IF path.trailing_slash THEN <<"/">> ELSE <<>>))
                : sub_url \in {IF path.sub_route # <<>>
                               THEN generate_url(types, t + 1, Head(v.sub), locale_,
                                                 encode_params)
                               ELSE SomeText(<<>>)}})

-----------------------------------------------------------------------------
(* Query parameters.  Chemin::parse hands the QString of the url to the    *)
(* derived parse_with_accepted_locales, which fills the query parameter    *)
(* fields of the variant it builds and of the sub-route values;            *)
(* Chemin::generate_url gives an empty QString to the derived              *)
(* generate_url_and_build_qstring, which adds the pairs of the fields.     *)
(* Every query parameter field here is a String (an Option<String> for an  *)
(* optional one), whose parse and to_string are the text itself.           *)

\* The route of the variant of a value of the enum at t.
RouteOf(types, t, v) == CHOOSE i \in 1..Len(types[t]) : types[t][i].variant = v.variant

\* The value a name has in the query string: that of the last pair of the name (the
\* empty text for a name without "="), None when no pair has the name.
qstring_get(qstring, name) ==
    LET hits == {i \in 1..Len(qstring) : qstring[i].name = name}
    IN  IF hits = {} THEN NoText
        ELSE SomeText(qstring[CHOOSE i \in hits : \A j \in hits : j <= i].value.text)

\* A field that could not be filled, and a field filled: with an Option<String> for
\* an optional parameter, with Some(text) for the String of the other two.
NoField == [ok |-> FALSE, value |-> NoText]
Field(value) == [ok |-> TRUE, value |-> value]

\* A resolution that leaves an absent mandatory parameter empty instead of failing.
query_param_parsing_lenient(param, qstring) ==
    LET got == qstring_get(qstring, param.name)
    IN  CASE param.mode = "Mandatory" ->
                 IF got.some THEN Field(got) ELSE Field(SomeText(<<>>))
          [] param.mode = "Optional" -> Field(got)
          [] param.mode = "WithDefaultValue" ->
                 IF got.some THEN Field(got) ELSE Field(SomeText(param.default))

\* A resolution that forgets the default of an absent parameter.
query_param_parsing_no_default(param, qstring) ==
    LET got == qstring_get(qstring, param.name)
    IN  CASE param.mode = "Mandatory" -> IF got.some THEN Field(got) ELSE NoField
          [] param.mode = "Optional" -> Field(got)
          [] param.mode = "WithDefaultValue" ->
                 IF got.some THEN Field(got) ELSE Field(SomeText(<<>>))

\* The field of a query parameter: a mandatory one absent fails the match, an
\* optional one absent is None, one with a default absent is the default.
query_param_parsing(param, qstring) ==
    LET got == qstring_get(qstring, param.name)
    IN  CASE param.mode = "Mandatory" -> IF got.some THEN Field(got) ELSE NoField
          [] param.mode = "Optional" -> Field(got)
          [] param.mode = "WithDefaultValue" ->
                 IF got.some THEN Field(got) ELSE Field(SomeText(param.default))

\* Option of the query parameter fields of a value and of the values nested in it,
\* outermost first.
NoQuery == [some |-> FALSE, levels |-> <<>>]
SomeQuery(levels) == [some |-> TRUE, levels |-> levels]

\* The query parameter fields of the value v of the enum at t that the path gave,
\* and of the sub-route values: None as soon as one field cannot be filled.
RECURSIVE query_params_parsing(_, _, _, _)
query_params_parsing(prog, t, v, qstring) ==
    LET params == prog.query_params[t][RouteOf(prog.types, t, v)]
        fields == [i \in 1..Len(params) |-> query_param_parsing(params[i], qstring)]
    IN  IF \E i \in 1..Len(params) : ~fields[i].ok THEN NoQuery
        ELSE The({
            IF ~sub.some THEN NoQuery
            ELSE SomeQuery(<<[i \in 1..Len(params) |-> fields[i].value]>> \o sub.levels)
            : sub \in {IF v.sub # <<>>
                       THEN query_params_parsing(prog, t + 1, Head(v.sub), qstring)
                       ELSE SomeQuery(<<>>)}})

\* Option<(Self, Vec<Locale>)> of a program with query parameters: the route value
\* as the path gives it, and its query parameter fields.
NoneParsedQ == [some |-> FALSE, route |-> NoValue, query |-> <<>>, locales |-> <<>>]
SomeParsedQ(route, query, locales) ==
    [some |-> TRUE, route |-> route, query |-> query, locales |-> locales]

\* parse_with_accepted_locales(path, accepted_locales, decode_params, qstring)
parse_with_qstring(prog, path, accepted_locales, decode_params, qstring) ==
    The({
        IF ~r.some THEN NoneParsedQ
        ELSE The({IF ~q.some THEN NoneParsedQ
                  ELSE SomeParsedQ(r.route, q.levels, r.locales)
                  : q \in {query_params_parsing(prog, 1, r.route, qstring)}})
        : r \in {parse_with_accepted_locales(prog.types, 1, path, accepted_locales,
                                             decode_params)}})

\* Chemin::parse(url, decode_params) of a program with query parameters.
Chemin_parse(prog, url, decode_params) ==
    parse_with_qstring(prog, url_path(url), AnyAccepted, decode_params,
                       url_qstring(url))

\* Pairs for every field, also an absent optional one and one equal to its default.
query_param_pairs_all(params, fields) ==
    [i \in 1..Len(params) |-> QPair(params[i].name, SomeText(fields[i].text))]

\* The pairs the fields of a variant add to the QString, in the order the fields
\* are declared: none for an optional field that is None, none for a field that
\* equals its default.
query_param_pairs(params, fields) ==
    LET emits(i) ==
            CASE params[i].mode = "Mandatory" -> TRUE
              [] params[i].mode = "Optional" -> fields[i].some
              [] params[i].mode = "WithDefaultValue" ->
                     fields[i].text # params[i].default
        kept == SelectSeq([i \in 1..Len(params) |-> i], emits)
    IN  [k \in 1..Len(kept) |->
            QPair(params[kept[k]].name, SomeText(fields[kept[k]].text))]

\* The pairs of the sub-route value before those of the value itself.
RECURSIVE build_qstring_inner_first(_, _, _, _)
build_qstring_inner_first(prog, t, v, query) ==
    (IF v.sub # <<>>
     THEN build_qstring_inner_first(prog, t + 1, Head(v.sub), Tail(query))
     ELSE <<>>)
    \o query_param_pairs(prog.query_params[t][RouteOf(prog.types, t, v)], Head(query))

\* The QString that generate_url_and_build_qstring leaves: the pairs of the value,
\* then those of its sub-route value.
RECURSIVE build_qstring(_, _, _, _)
build_qstring(prog, t, v, query) ==
    query_param_pairs(prog.query_params[t][RouteOf(prog.types, t, v)], Head(query))
    \o (IF v.sub # <<>>
        THEN build_qstring(prog, t + 1, Head(v.sub), Tail(query))
        ELSE <<>>)

\* Chemin::generate_url(&self, locale, encode_params) of a program with query
\* parameters: the url of the path, and the query string behind it.
Chemin_generate_url(prog, v, query, locale_, encode_params) ==
    The({IF ~value.some THEN NoText
         ELSE SomeText(append_qstring(value.text, build_qstring(prog, 1, v, query)))
         : value \in {generate_url(prog.types, 1, v, locale_, encode_params)}})

-----------------------------------------------------------------------------
(* The programs of the model: the route enums a program declares.          *)

a == <<"a">>
b == <<"b">>

\* Paths, named after the text of the route attribute.
p_root      == Path(<<>>, <<>>, TRUE)                             \* "/"
p_a         == Path(<<Static(a)>>, <<>>, FALSE)                   \* "/a"
p_b         == Path(<<Static(b)>>, <<>>, FALSE)                   \* "/b"
p_a_slash   == Path(<<Static(a)>>, <<>>, TRUE)                    \* "/a/"
p_p         == Path(<<Param(<<>>)>>, <<>>, FALSE)                 \* "/:"
p_p_slash   == Path(<<Param(<<>>)>>, <<>>, TRUE)                  \* "/:/"
p_a_p       == Path(<<Static(a), Param(<<>>)>>, <<>>, FALSE)      \* "/a/:"
p_p_b       == Path(<<Param(<<>>), Static(b)>>, <<>>, FALSE)      \* "/:/b"
p_p_a       == Path(<<Param(<<>>), Static(a)>>, <<>>, FALSE)      \* "/:/a"
p_p_p       == Path(<<Param(<<>>), Param(<<>>)>>, <<>>, FALSE)    \* "/:/:"
p_a_sub     == Path(<<Static(a)>>, <<"..">>, FALSE)               \* "/a/.."
p_x_y       == Path(<<Param(<<"x">>), Param(<<"y">>)>>, <<>>, FALSE)          \* "/:x/:y"
p_b_y_x     == Path(<<Static(b), Param(<<"y">>), Param(<<"x">>)>>, <<>>, TRUE) \* "/b/:y/:x/"

\* A variant of unnamed fields (or of none) with one route of any locale.
Plain(variant, path) ==
    LET n == Len(params_of(path))
    IN  Route(variant, IF n = 0 /\ path.sub_route = <<>> THEN "Unit" ELSE "Unnamed",
              [i \in 1..n |-> unnamed_param_name(i - 1)],
              <<LocalizedRoute(path, <<>>)>>)

VariantNames == <<"V1", "V2", "V3">>

\* An enum with a variant for each of the paths given, in that order.
PlainEnum(paths) == [i \in 1..Len(paths) |-> Plain(VariantNames[i], paths[i])]

FlatPaths == {p_root, p_a, p_a_slash, p_p, p_p_slash, p_a_p, p_p_b, p_p_p}

CrossPaths == {p_a_p, p_p_b, p_p_a}

\* Programs of one enum without sub-routes and without locales: two variants with
\* any two of FlatPaths, or three with any three of CrossPaths.
FlatDecls ==
    {<<PlainEnum(ps)>> : ps \in [1..2 -> FlatPaths] \cup [1..3 -> CrossPaths]}

\* The locale lists a route attribute of the model declares: none (any locale), or
\* some locales in the order the HashSet yields them.
OuterLocales == {<<>>, <<"en", "fr">>, <<"fr">>}
MidLocales == {<<>>, <<"fr", "en">>, <<"en">>, <<"es">>}
HelloLocales == {<<>>, <<"fr">>, <<"es">>}
LeafLocales == {<<<<>>, <<>>>>, <<<<"en">>, <<"fr">>>>, <<<<>>, <<"fr">>>>,
                <<<<"fr", "en">>, <<"es">>>>}

\* enum Outer { #[route(l1 => "/a/..")] WithSub(Mid),
\*              #[route("/")] #[route(es => "/b")] Home,
\*              #[route(en => "/:x/:y")] #[route(fr => "/b/:y/:x/")] Pair { x, y } }
OuterEnum(l1) ==
    <<Route("WithSub", "Unnamed", <<>>, <<LocalizedRoute(p_a_sub, l1)>>),
      Route("Home", "Unit", <<>>,
            <<LocalizedRoute(p_root, <<>>), LocalizedRoute(p_b, <<"es">>)>>),
      Route("Pair", "Named", <<"x", "y">>,
            <<LocalizedRoute(p_x_y, <<"en">>), LocalizedRoute(p_b_y_x, <<"fr">>)>>)>>

MidEnum(l2, l2b) ==
    <<Route("Deeper", "Unnamed", <<>>, <<LocalizedRoute(p_a_sub, l2)>>),
      Route("Hello", "Unit", <<>>, <<LocalizedRoute(p_a, l2b)>>),
      Route("Name", "Unnamed", <<"p0">>, <<LocalizedRoute(p_p, <<>>)>>)>>

LeafEnum(l3) ==
    <<Route("Leaf", "Unit", <<>>,
            <<LocalizedRoute(p_a, l3[1]), LocalizedRoute(p_b, l3[2])>>),
      Route("Slash", "Unit", <<>>, <<LocalizedRoute(p_a_slash, <<>>)>>)>>

\* Programs of three enums nested by sub-routes, with locales.
NestedDecls ==
    {<<OuterEnum(l1), MidEnum(l2, l2b), LeafEnum(l3)>> :
        l1 \in OuterLocales, l2 \in MidLocales, l2b \in HelloLocales, l3 \in LeafLocales}

Decls == FlatDecls \cup NestedDecls

\* Programs with a field that is not a String.
p_a_name_age == Path(<<Static(a), Param(<<"name">>), Param(<<"age">>)>>, <<>>, FALSE)
                                                                  \* "/a/:name/:age"

\* enum Route { #[route("/a/:name/:age")] HelloWithNameAndAge { name: String, age: u32 },
\*              #[route("/")] #[route(es => "/a")] Home,
\*              #[route("/:")] Number(u32) }
TypedEnum ==
    <<TypedRoute("HelloWithNameAndAge", "Named", <<"name", "age">>, <<"String", "u32">>,
                 <<LocalizedRoute(p_a_name_age, <<>>)>>),
      Route("Home", "Unit", <<>>,
            <<LocalizedRoute(p_root, <<>>), LocalizedRoute(p_a, <<"es">>)>>),
      TypedRoute("Number", "Unnamed", <<"p0">>, <<"u32">>, <<LocalizedRoute(p_p, <<>>)>>)>>

\* enum Outer { #[route("/a/..")] WithSub(Inner), #[route("/")] Home }
\* enum Inner { #[route("/:")] Age(u32), #[route("/a/:")] Name(String) }
TypedOuter ==
    <<Route("WithSub", "Unnamed", <<>>, <<LocalizedRoute(p_a_sub, <<>>)>>),
      Route("Home", "Unit", <<>>, <<LocalizedRoute(p_root, <<>>)>>)>>

TypedInner ==
    <<TypedRoute("Age", "Unnamed", <<"p0">>, <<"u32">>, <<LocalizedRoute(p_p, <<>>)>>),
      Route("Name", "Unnamed", <<"p0">>, <<LocalizedRoute(p_a_p, <<>>)>>)>>

TypedDecls == {<<TypedEnum>>, <<TypedOuter, TypedInner>>}

\* Programs with a pattern that is a sub-route alone.
p_sub == Path(<<>>, <<"..">>, FALSE)                              \* "/.."

\* enum Outer { #[route("/a/..")] WithSub(Mid), #[route("/")] Home }
\* enum Mid { #[route("/..")] Through(Leaf), #[route("/a")] Hello }
StarOuter ==
    <<Route("WithSub", "Unnamed", <<>>, <<LocalizedRoute(p_a_sub, <<>>)>>),
      Route("Home", "Unit", <<>>, <<LocalizedRoute(p_root, <<>>)>>)>>

StarMid ==
    <<Route("Through", "Unnamed", <<>>, <<LocalizedRoute(p_sub, <<>>)>>),
      Route("Hello", "Unit", <<>>, <<LocalizedRoute(p_a, <<>>)>>)>>

\* enum Top { #[route("/..")] All(Leaf), #[route("/")] Home }
StarTop ==
    <<Route("All", "Unnamed", <<>>, <<LocalizedRoute(p_sub, <<>>)>>),
      Route("Home", "Unit", <<>>, <<LocalizedRoute(p_root, <<>>)>>)>>

StarDecls ==
    {<<StarOuter, StarMid, LeafEnum(<<<<>>, <<>>>>)>>,
     <<StarTop, LeafEnum(<<<<>>, <<"fr">>>>)>>}

\* Programs with query parameters.  The names of the fields.
k_q == <<"q">>
k_m == <<"m">>
k_o == <<"o">>
k_d == <<"d">>

p_b_name      == Path(<<Static(b), Param(<<"name">>)>>, <<>>, FALSE)   \* "/b/:name"
p_a_named_sub == Path(<<Static(a)>>, <<"sub_route">>, FALSE)           \* "/a/..sub_route"

\* enum Route { #[route("/b/:name")] Hello { name: String, #[query_param..] q },
\*              #[route("/")] Home }
HelloProgram(params) ==
    QProgram(<< <<Route("Hello", "Named", <<"name">>, <<LocalizedRoute(p_b_name, <<>>)>>),
                 Route("Home", "Unit", <<>>, <<LocalizedRoute(p_root, <<>>)>>)>> >>,
             << <<params, <<>>>> >>)

\* enum Route { #[route(l1 => "/a/..sub_route")]
\*              WithNamedSubRoute { sub_route: SubRoute, outer query parameters },
\*              #[route("/")] Home }
\* enum SubRoute { #[route("/b")] Home,
\*                 #[route("/a")] WithParams { sub query parameters } }
NestedProgram(l1, outer_params, sub_params) ==
    QProgram(<< <<Route("WithNamedSubRoute", "Named", <<>>,
                        <<LocalizedRoute(p_a_named_sub, l1)>>),
                 Route("Home", "Unit", <<>>, <<LocalizedRoute(p_root, <<>>)>>)>>,
                <<Route("Home", "Unit", <<>>, <<LocalizedRoute(p_b, <<>>)>>),
                  Route("WithParams", "Named", <<>>, <<LocalizedRoute(p_a, <<>>)>>)>> >>,
             << <<outer_params, <<>>>>, <<<<>>, sub_params>> >>)

\* The query parameters of the one field q: mandatory, optional, with the default "a".
HelloParams == {<<Mandatory(k_q)>>, <<Optional(k_q)>>, <<WithDefaultValue(k_q, a)>>}

OuterParams == {<<>>, <<Mandatory(k_m)>>}
SubParams == {<<Optional(k_o), WithDefaultValue(k_d, a)>>, <<Mandatory(k_q)>>}

QDecls ==
    {HelloProgram(ps) : ps \in HelloParams}
    \cup {NestedProgram(l1, ops, sps) :
             l1 \in {<<>>, <<"fr">>}, ops \in OuterParams, sps \in SubParams}

-----------------------------------------------------------------------------
(* The inputs of the model.                                                *)

\* The segments a request path is made of.
Segments == {<<>>, a, b}

\* The request paths: up to MaxSegs segments, each behind a "/"; "" is among them.
Urls == {SlashJoin(segs) : segs \in SeqsUpTo(Segments, MaxSegs)}

\* The texts of a String field of a route value.
FieldTexts == {<<>>, a, <<"/">>}

\* The values of a u32 field of a route value, as to_string writes them.
NumberTexts == {<<"0">>, <<"1">>, <<"1", "0">>}

FieldTextsOf(ty) == IF ty = "u32" THEN NumberTexts ELSE FieldTexts

\* The segments of the request paths of a program with typed fields: a letter, a
\* number, a number with a zero in front, a byte that is no UTF-8 text, a number
\* behind an encoded "+".
TypedSegments == {a, <<"1">>, <<"0", "1">>, <<"%", "f", "f">>, <<"%", "2", "B", "1">>}

TypedUrls == {SlashJoin(segs) : segs \in SeqsUpTo(TypedSegments, MaxSegs)}

\* The route values of the enum types[t].
RECURSIVE Values(_, _)
Values(types, t) ==
    UNION {
        LET route == types[t][r]
            has_sub == route.localized_routes[1].path.sub_route # <<>>
            subs == IF has_sub THEN {<<v>> : v \in Values(types, t + 1)} ELSE {<<>>}
        IN  {RouteValue(route.variant, fs, sub) :
                fs \in {fs \in [1..Len(route.field_names) -> FieldTexts \cup NumberTexts] :
                           \A i \in 1..Len(route.field_names) :
                               fs[i] \in FieldTextsOf(field_type(route, i))},
                sub \in subs}
        : r \in 1..Len(types[t])}

TargetLocales == {NoLocale} \cup {SomeLocale(l) : l \in Locales}

\* The locale lists of the negotiation: the locales without repetition.
LocaleLists == {ls \in SeqsUpTo(Locales, MaxLocales) : ls # <<>> /\ NoDup(ls)}

\* The characters of the text of a query parameter field.
QueryAlphabet == {"a", " ", "+", "%", "&", "=", "2", "0"}

Nested(prog) == Len(prog.types) > 1

\* The texts of the query parameter fields of a value handed to generate_url.
QueryTexts(prog) ==
    IF Nested(prog) THEN {a, b} ELSE SeqsUpTo(QueryAlphabet, MaxText)

\* The texts of a String field that is a url parameter.
QFieldTexts == {a, <<"a", " ">>}

\* The fields of the query parameters of a variant.
QueryFields(prog, params) ==
    {fs \in [1..Len(params) -> {NoText} \cup {SomeText(x) : x \in QueryTexts(prog)}] :
        \A i \in 1..Len(params) : fs[i].some \/ params[i].mode = "Optional"}

\* The route values of the enum at t of a program with query parameters, each with
\* the query parameter fields of the value and of the values nested in it.
RECURSIVE QValues(_, _)
QValues(prog, t) ==
    UNION {
        LET route == prog.types[t][r]
            has_sub == route.localized_routes[1].path.sub_route # <<>>
            subs == IF has_sub
                    THEN {[sub |-> <<v.route>>, query |-> v.query] : v \in QValues(prog, t + 1)}
                    ELSE {[sub |-> <<>>, query |-> <<>>]}
        IN  {[route |-> RouteValue(route.variant, fs, sub.sub),
              query |-> <<qs>> \o sub.query] :
                fs \in [1..Len(route.field_names) -> QFieldTexts],
                qs \in QueryFields(prog, prog.query_params[t][r]),
                sub \in subs}
        : r \in 1..Len(prog.types[t])}

QTargetLocales(prog) ==
    IF Nested(prog) THEN {NoLocale, SomeLocale("fr")} ELSE {NoLocale}

\* The names of the query parameters of a program.
QueryKeys(prog) ==
    {param.name :
        param \in UNION {UNION {Range(prog.query_params[t][r]) :
                                  r \in 1..Len(prog.query_params[t])} :
                            t \in 1..Len(prog.query_params)}}

\* The pieces of a query string: name=value, and for a program of one enum a name
\* alone, values to decode and a name nobody declares.
QueryItems(prog) ==
    IF Nested(prog)
    THEN {k \o <<"=">> \o v : k \in QueryKeys(prog), v \in {a, b}}
    ELSE {k_q \o <<"=">> \o v :
             v \in {a, <<>>, <<"+">>, <<"%", "2", "B">>, <<"%", "2", "0">>, <<"?">>}}
         \cup {k_q, <<"x", "=", "a">>}

RECURSIVE AmpJoin(_)
AmpJoin(items) ==
    IF items = <<>> THEN <<>>
    ELSE Head(items) \o (IF Len(items) > 1 THEN <<"&">> ELSE <<>>) \o AmpJoin(Tail(items))

\* The request paths of a program with query parameters.
QPaths(prog) ==
    IF Nested(prog)
    THEN {<<"/", "a", "/", "a">>, <<"/", "a", "/", "b">>, <<"/", "a">>, <<"/">>}
    ELSE {<<"/", "b", "/", "a">>, <<"/", "b", "/", "a", "%", "2", "0">>, <<"/">>}

\* The urls: a path, and behind it nothing or a "?" and up to MaxPairs pieces.
QUrls(prog) ==
    {path \o query :
        path \in QPaths(prog),
        query \in {<<>>} \cup {<<"?">> \o AmpJoin(items) :
                                  items \in SeqsUpTo(QueryItems(prog), MaxPairs)}}

AcceptedSet == {AnyAccepted} \cup {SomeAccepted(ls) : ls \in LocaleLists}
RouteSet == {AnyRoute} \cup {SomeRoute(ls) : ls \in LocaleLists}

-----------------------------------------------------------------------------
(* The state machine of the router: a program, and the calls made to it.   *)

NoResult == NoneParsed(<<>>)

\* No program with query parameters, and no call to one.
QueryIdle ==
    /\ qdecl = QProgram(<<>>, <<>>)
    /\ qop = "init"
    /\ q_url = <<>>
    /\ q_flag = FALSE
    /\ q_locale = NoLocale
    /\ q_value = NoValue
    /\ q_query = <<>>
    /\ q_result = NoneParsedQ
    /\ q_gen = NoText

\* No url is parsed, no route value formatted, no locale negotiated.
MainIdle ==
    /\ decl = <<>>
    /\ op = "init"
    /\ in_url = <<>>
    /\ in_flag = FALSE
    /\ in_locale = NoLocale
    /\ in_value = NoValue
    /\ result = NoResult
    /\ calls = <<>>
    /\ gen = NoText
    /\ l_accepted = AnyAccepted
    /\ l_declared = AnyRoute
    /\ lop = "init"
    /\ lres = [bool |-> FALSE, accepted |-> AnyAccepted, list |-> <<>>]

\* The derive macro has not been given a variant.
CompileIdle ==
    /\ c_variant = [fields |-> "Unit", len |-> 0, query_param |-> <<>>]
    /\ c_attrs = <<>>
    /\ c_result = [ok |-> FALSE, error |-> "", localized_routes |-> <<>>, query_params |-> <<>>]
    /\ cop = "init"

\* No thread has a static ROUTER to call.
LazyIdle ==
    /\ z_routes = <<>>
    /\ z_cell = "Incomplete"
    /\ z_value = <<>>
    /\ z_router = <<>>
    /\ z_next = 0
    /\ z_pc = <<>>
    /\ z_seen = <<>>
    /\ z_done = <<>>
    /\ z_builds = 0

\* One of the programs given, and no call made yet.
InitOf(programs) ==
    /\ decl \in programs
    /\ op = "init"
    /\ in_url = <<>>
    /\ in_flag = FALSE
    /\ in_locale = NoLocale
    /\ in_value = NoValue
    /\ result = NoResult
    /\ calls = <<>>
    /\ gen = NoText
    /\ l_accepted = AnyAccepted
    /\ l_declared = AnyRoute
    /\ lop = "init"
    /\ lres = [bool |-> FALSE, accepted |-> AnyAccepted, list |-> <<>>]
    /\ QueryIdle
    /\ CompileIdle
    /\ LazyIdle

Init == InitOf(Decls)

\* Route::parse(url, decode_params).  The calls are pure: a behaviour is one call of
\* the program, and the call that checks it.
Parse(url, decode_params) ==
    /\ op = "init"
    /\ op' = "parse"
    /\ in_url' = url
    /\ in_flag' = decode_params
    /\ in_locale' = NoLocale
    /\ in_value' = NoValue
    /\ \E r \in {parse(decl, url, decode_params)} :
           /\ result' = [r EXCEPT !.calls = <<>>]
           /\ calls' = r.calls
    /\ gen' = NoText
    /\ UNCHANGED <<decl, localeVars, queryVars, compileVars, lazyVars>>

\* value.generate_url(locale, encode_params)
GenerateUrl(v, locale_, encode_params) ==
    /\ op = "init"
    /\ op' = "generate"
    /\ in_url' = <<>>
    /\ in_flag' = encode_params
    /\ in_locale' = locale_
    /\ in_value' = v
    /\ result' = NoResult
    /\ calls' = <<>>
    /\ gen' = generate_url(decl, 1, v, locale_, encode_params)
    /\ UNCHANGED <<decl, localeVars, queryVars, compileVars, lazyVars>>

\* Route::parse(url, flag) of the url that generate_url(locale, flag) just returned.
ParseGenerated ==
    /\ op = "generate"
    /\ gen.some
    /\ op' = "reparse"
    /\ in_url' = gen.text
    /\ \E r \in {parse(decl, gen.text, in_flag)} :
           /\ result' = [r EXCEPT !.calls = <<>>]
           /\ calls' = r.calls
    /\ UNCHANGED <<decl, in_flag, in_locale, in_value, gen, localeVars, queryVars, compileVars, lazyVars>>

Next ==
    \/ \E u \in Urls, d \in BOOLEAN : Parse(u, d)
    \/ \E v \in Values(decl, 1), l \in TargetLocales, e \in BOOLEAN : GenerateUrl(v, l, e)
    \/ ParseGenerated

Spec == Init /\ [][Next]_vars

\* The same calls made to a program with typed fields, with request paths whose
\* segments may fail to decode or to parse.
TypedInit == InitOf(TypedDecls)

TypedNext ==
    \/ \E u \in TypedUrls, d \in BOOLEAN : Parse(u, d)
    \/ \E v \in Values(decl, 1), l \in TargetLocales, e \in BOOLEAN : GenerateUrl(v, l, e)
    \/ ParseGenerated

TypedSpec == TypedInit /\ [][TypedNext]_vars

\* The same calls made to a program with a pattern that is a sub-route alone.
StarInit == InitOf(StarDecls)

StarSpec == StarInit /\ [][Next]_vars

-----------------------------------------------------------------------------
(* The state machine of the locale negotiation: the three methods of       *)
(* AcceptedLocales applied to an accepted set and a route's set.           *)

LocaleResult(bool, accepted_locales, list) ==
    [bool |-> bool, accepted |-> accepted_locales, list |-> list]

LocaleInit ==
    /\ l_accepted \in AcceptedSet
    /\ l_declared \in RouteSet
    /\ lop = "init"
    /\ lres = LocaleResult(FALSE, AnyAccepted, <<>>)
    /\ decl = <<>>
    /\ op = "init"
    /\ in_url = <<>>
    /\ in_flag = FALSE
    /\ in_locale = NoLocale
    /\ in_value = NoValue
    /\ result = NoResult
    /\ calls = <<>>
    /\ gen = NoText
    /\ QueryIdle
    /\ CompileIdle
    /\ LazyIdle

\* accepted.accept(&declared)
Accept ==
    /\ lop' = "accept"
    /\ lres' = LocaleResult(accept(l_accepted, l_declared), AnyAccepted, <<>>)
    /\ UNCHANGED <<l_accepted, l_declared, mainVars, queryVars, compileVars, lazyVars>>

\* accepted.accepted_locales_for_sub_route(&declared)
Narrow ==
    /\ lop' = "narrow"
    /\ lres' = LocaleResult(FALSE, accepted_locales_for_sub_route(l_accepted, l_declared),
                            <<>>)
    /\ UNCHANGED <<l_accepted, l_declared, mainVars, queryVars, compileVars, lazyVars>>

\* accepted.resulting_locales(&declared)
Resulting ==
    /\ lop' = "resulting"
    /\ lres' = LocaleResult(FALSE, AnyAccepted, resulting_locales(l_accepted, l_declared))
    /\ UNCHANGED <<l_accepted, l_declared, mainVars, queryVars, compileVars, lazyVars>>

LocaleNext == Accept \/ Narrow \/ Resulting

LocaleSpec == LocaleInit /\ [][LocaleNext]_vars

-----------------------------------------------------------------------------
(* The state machine of the query parameters: a program with query         *)
(* parameters, and the calls made to it.                                   *)

QueryInit ==
    /\ qdecl \in QDecls
    /\ qop = "init"
    /\ q_url = <<>>
    /\ q_flag = FALSE
    /\ q_locale = NoLocale
    /\ q_value = NoValue
    /\ q_query = <<>>
    /\ q_result = NoneParsedQ
    /\ q_gen = NoText
    /\ decl = <<>>
    /\ op = "init"
    /\ in_url = <<>>
    /\ in_flag = FALSE
    /\ in_locale = NoLocale
    /\ in_value = NoValue
    /\ result = NoResult
    /\ calls = <<>>
    /\ gen = NoText
    /\ l_accepted = AnyAccepted
    /\ l_declared = AnyRoute
    /\ lop = "init"
    /\ lres = [bool |-> FALSE, accepted |-> AnyAccepted, list |-> <<>>]
    /\ CompileIdle
    /\ LazyIdle

\* Route::parse(url, decode_params), the url with a query string.
QueryParse ==
    /\ qop = "init"
    /\ \E url \in QUrls(qdecl), decode_params \in BOOLEAN :
           /\ q_url' = url
           /\ q_flag' = decode_params
           /\ \E r \in {Chemin_parse(qdecl, url, decode_params)} : q_result' = r
    /\ qop' = "parse"
    /\ UNCHANGED <<qdecl, q_locale, q_value, q_query, q_gen, mainVars, localeVars, compileVars, lazyVars>>

\* value.generate_url(locale, encode_params), the value with query parameter fields.
QueryGenerate ==
    /\ qop = "init"
    /\ \E v \in QValues(qdecl, 1), locale_ \in QTargetLocales(qdecl),
          encode_params \in BOOLEAN :
           /\ q_flag' = encode_params
           /\ q_locale' = locale_
           /\ q_value' = v.route
           /\ q_query' = v.query
           /\ \E g \in {Chemin_generate_url(qdecl, v.route, v.query, locale_,
                                             encode_params)} :
                  q_gen' = g
    /\ qop' = "generate"
    /\ UNCHANGED <<qdecl, q_url, q_result, mainVars, localeVars, compileVars, lazyVars>>

\* Route::parse(url, flag) of the url that generate_url(locale, flag) just returned.
QueryParseGenerated ==
    /\ qop = "generate"
    /\ q_gen.some
    /\ qop' = "reparse"
    /\ q_url' = q_gen.text
    /\ \E r \in {Chemin_parse(qdecl, q_gen.text, q_flag)} : q_result' = r
    /\ UNCHANGED <<qdecl, q_flag, q_locale, q_value, q_query, q_gen, mainVars, localeVars, compileVars, lazyVars>>

QueryNext == QueryParse \/ QueryGenerate \/ QueryParseGenerated

QuerySpec == QueryInit /\ [][QueryNext]_vars

-----------------------------------------------------------------------------
(* What the properties below read off a state: the calls of the last parse *)
(* with the table entry each selected, and what a pattern matches when it  *)
(* is the only one of its router.                                          *)

\* The table entries of the enum at t.
EntriesOf(t) == Entries(decl[t], 1)

\* The localized route of entry e of the enum at t.
LocalizedRouteOf(t, e) ==
    decl[t][EntriesOf(t)[e].route].localized_routes[EntriesOf(t)[e].localized]

PathOf(t, e) == LocalizedRouteOf(t, e).path

\* The calls of the last parse that the router answered with an entry.
Selected == {i \in 1..Len(calls) : calls[i].entry # 0}

\* The path is matched by the pattern taken alone.
matches_alone(path, url) ==
    recognize(add(NewRouter, path_to_route_recognizer_path(path), 0), url).ok

NumStatic(path) == Len(SelectSeq(path.components, LAMBDA c : c.kind = "Static"))

\* The first place where two patterns differ, 0 if none within both.
FirstDifference(p, q) ==
    LET n == IF Len(p.components) < Len(q.components) THEN Len(p.components)
             ELSE Len(q.components)
        ds == {k \in 1..n : p.components[k].kind # q.components[k].kind
                            \/ (p.components[k].kind = "Static"
                                /\ p.components[k] # q.components[k])}
    IN  IF ds = {} THEN 0 ELSE CHOOSE k \in ds : \A j \in ds : k <= j

\* A path qualifies for a target locale: it is declared for any locale, or the target
\* is Some(l) and l is one of its locales.
Qualifies(localized_route, locale_) ==
    \/ localized_route.locales = <<>>
    \/ locale_.some /\ locale_.l \in Range(localized_route.locales)

\* The route of the variant of a value of the enum at 1.
RouteOfValue(v) == CHOOSE i \in 1..Len(decl[1]) : decl[1][i].variant = v.variant

\* The program with route r of the enum at 1 left with its k-th path alone.
WithOnlyPath(r, k) ==
    [decl EXCEPT ![1][r].localized_routes = <<decl[1][r].localized_routes[k]>>]

-----------------------------------------------------------------------------
(* The properties.                                                         *)

\* C1: round trip.  When generate_url(v, Some(l), e) returned Some(u), parse(u, e)
\* returns Some((v', L)) with v' equal to v.
C1_RoundTrip ==
    (op = "reparse" /\ in_locale.some) => (result.some /\ result.route = in_value)

\* C2 as stated: the pattern of every entry the router selects has a trailing slash
\* exactly when the path it was asked ends with "/", at every level of nesting.
C2_TrailingSlashExact ==
    \A i \in Selected :
        PathOf(calls[i].type, calls[i].entry).trailing_slash
            <=> EndsWithSlash(calls[i].url)

\* C2: the trailing slash is exact for the patterns that have a component and no
\* sub-route capture: such a pattern is selected for a path that ends with "/" exactly
\* when it declares a trailing slash.  The pattern "/" is selected for the paths ""
\* and "/" alone.  A pattern with a sub-route capture hands the end of the path down:
\* the path the nested type is asked ends with "/" exactly when the request path does.
C2_TrailingSlash ==
    \A i \in Selected :
        LET path == PathOf(calls[i].type, calls[i].entry)
            url == calls[i].url
        IN  /\ (path.sub_route = <<>> /\ path.components # <<>>)
                   => (path.trailing_slash <=> EndsWithSlash(url))
            /\ (path.sub_route = <<>> /\ path.components = <<>>)
                   => url \in {<<>>, <<"/">>}
            /\ (path.sub_route # <<>> /\ calls[i].accepts)
                   => /\ i < Len(calls)
                      /\ EndsWithSlash(calls[i + 1].url) <=> EndsWithSlash(url)

\* A pattern without trailing slash and with a sub-route capture has parsed a request
\* path that ends with "/".
C2_Witness ==
    /\ op = "parse"
    /\ result.some
    /\ Len(calls) >= 2
    /\ EndsWithSlash(in_url)
    /\ ~PathOf(1, calls[1].entry).trailing_slash

\* C3: locale gating falls through.  No call is answered None for the locales of the
\* entry selected while another entry of the table matches the same path, has its
\* locales accepted and nothing more to parse (no sub-route capture; the paths of the
\* model hold no escape, so every parameter decodes).
C3_FallThrough ==
    \A i \in Selected :
        ~calls[i].accepts =>
            ~\E f \in 1..Len(EntriesOf(calls[i].type)) :
                /\ f # calls[i].entry
                /\ PathOf(calls[i].type, f).sub_route = <<>>
                /\ matches_alone(PathOf(calls[i].type, f), calls[i].url)
                /\ accept(calls[i].accepted,
                          ROUTE_LOCALES(LocalizedRouteOf(calls[i].type, f)))

C6_Accept ==
    lop = "accept" =>
        (lres.bool <=> \/ l_accepted.kind = "Any"
                       \/ l_declared.kind = "Any"
                       \/ Range(l_accepted.locales) \cap Range(l_declared.locales) # {})

\* accept answered false: two explicit sets without a common element.
C6_Witness ==
    /\ lop = "accept"
    /\ ~lres.bool
    /\ l_accepted.kind = "Some"
    /\ l_declared.kind = "Some"

\* C7 as stated: narrowing Explicit(A) by Explicit(R) gives the elements of A that are
\* members of R, in A's order.
C7_NarrowInAcceptedOrder ==
    (lop = "narrow" /\ l_accepted.kind = "Some" /\ l_declared.kind = "Some") =>
        lres.accepted = SomeAccepted(SelectSeq(l_accepted.locales,
                                               LAMBDA l : l \in Range(l_declared.locales)))

\* C7: narrowing gives Any for Any with Any, Explicit(R) for Any with Explicit(R),
\* Explicit(A) for Explicit(A) with Any, and for Explicit(A) with Explicit(R) the
\* elements of R that are members of A, in R's order.
C7_Narrow ==
    lop = "narrow" =>
        lres.accepted =
            IF l_accepted.kind = "Any" /\ l_declared.kind = "Any" THEN AnyAccepted
            ELSE IF l_accepted.kind = "Any" THEN SomeAccepted(l_declared.locales)
            ELSE IF l_declared.kind = "Any" THEN SomeAccepted(l_accepted.locales)
            ELSE SomeAccepted(SelectSeq(l_declared.locales,
                                        LAMBDA l : l \in Range(l_accepted.locales)))

\* Two explicit sets of the same two locales in different orders were narrowed.
C7_Witness ==
    /\ lop = "narrow"
    /\ l_accepted.kind = "Some"
    /\ l_declared.kind = "Some"
    /\ Len(lres.accepted.locales) = 2
    /\ l_accepted.locales # l_declared.locales

\* C8: resulting_locales gives the empty list for Any with Any, R for Any with
\* Explicit(R), A for Explicit(A) with Any, and for Explicit(A) with Explicit(R) the
\* elements of R that are members of A, in R's order.
C8_ResultingLocales ==
    lop = "resulting" =>
        lres.list =
            IF l_accepted.kind = "Any" /\ l_declared.kind = "Any" THEN <<>>
            ELSE IF l_accepted.kind = "Any" THEN l_declared.locales
            ELSE IF l_declared.kind = "Any" THEN l_accepted.locales
            ELSE SelectSeq(l_declared.locales,
                           LAMBDA l : l \in Range(l_accepted.locales))

\* Two explicit sets that share one locale of the two of the route.
C8_Witness ==
    /\ lop = "resulting"
    /\ l_accepted.kind = "Some"
    /\ l_declared.kind = "Some"
    /\ Len(l_declared.locales) = 2
    /\ Len(lres.list) = 1

\* C9: when the entry matched has a sub-route capture, the locales parse returns are
\* those the nested type's parse returns when called with the accepted locales
\* narrowed by the entry's; and over the chain of entries matched the locales
\* returned are, as a set, the locales common to every explicit set declared on the
\* chain (the empty list when none is explicit).
C9_SubRouteLocales ==
    (op = "parse" /\ result.some) =>
        LET n == Len(calls)
            declared(i) == ROUTE_LOCALES(LocalizedRouteOf(calls[i].type, calls[i].entry))
            explicit == {i \in 1..n : declared(i).kind = "Some"}
        IN  /\ n >= 2 =>
                /\ calls[2].accepted
                       = accepted_locales_for_sub_route(calls[1].accepted, declared(1))
                /\ result.locales
                       = parse_with_accepted_locales(decl, 2, calls[2].url,
                                                     calls[2].accepted, in_flag).locales
            /\ IF explicit = {} THEN result.locales = <<>>
               ELSE /\ NoDup(result.locales)
                    /\ Range(result.locales)
                           = {l \in Locales :
                                 \A i \in explicit : l \in Range(declared(i).locales)}

\* A parse through three enums whose first two entries declare explicit sets of two
\* locales and return the one they share.
C9_Witness ==
    /\ op = "parse"
    /\ result.some
    /\ Len(calls) = 3
    /\ Len(LocalizedRouteOf(1, calls[1].entry).locales) = 2
    /\ Len(LocalizedRouteOf(2, calls[2].entry).locales) = 2
    /\ Len(result.locales) = 1

\* C10: generate_url uses the first path of the value's variant, in declaration
\* order, that qualifies for the target locale: it returns what it returns for the
\* variant left with that path alone, and None when no path qualifies.
C10_FirstQualifyingPath ==
    op = "generate" =>
        LET r == RouteOfValue(in_value)
            paths == decl[1][r].localized_routes
            hits == {k \in 1..Len(paths) : Qualifies(paths[k], in_locale)}
        IN  IF hits = {} THEN ~gen.some
            ELSE LET k == CHOOSE k \in hits : \A j \in hits : k <= j
                 IN  gen = generate_url(WithOnlyPath(r, k), 1, in_value, in_locale, in_flag)

\* A url was generated from the first of two paths that both qualify.
C10_Witness ==
    /\ op = "generate"
    /\ gen.some
    /\ Len(decl[1][RouteOfValue(in_value)].localized_routes) = 2
    /\ \A k \in 1..2 :
           Qualifies(decl[1][RouteOfValue(in_value)].localized_routes[k], in_locale)

\* No path of the variant qualifies for the target locale: nothing is generated.
C10_WitnessNone ==
    /\ op = "generate"
    /\ ~gen.some
    /\ \A k \in 1..Len(decl[1][RouteOfValue(in_value)].localized_routes) :
           ~Qualifies(decl[1][RouteOfValue(in_value)].localized_routes[k], in_locale)

\* The value has a sub-route value.
HasSub(v) == v.sub # <<>>

\* Every path of the variant of v, and of the variants of the values nested in v, is
\* declared without locales.
RECURSIVE NoI18n(_, _)
NoI18n(t, v) ==
    LET routes == decl[t]
        r == CHOOSE i \in 1..Len(routes) : routes[i].variant = v.variant
    IN  /\ \A k \in 1..Len(routes[r].localized_routes) :
               routes[r].localized_routes[k].locales = <<>>
        /\ HasSub(v) => NoI18n(t + 1, Head(v.sub))

\* C11: generation is all or nothing across nesting.  When generate_url of the
\* sub-route value returns None for the target locale, generate_url of the outer
\* value returns None, also when a path of the outer variant qualifies; and a url
\* that is returned ends with the whole url of the sub-route value.
C11_AllOrNothing ==
    (op = "generate" /\ HasSub(in_value)) =>
        LET sub_url == generate_url(decl, 2, Head(in_value.sub), in_locale, in_flag)
            route == decl[1][RouteOfValue(in_value)]
        IN  /\ ~sub_url.some => ~gen.some
            /\ gen.some =>
                   \E k \in 1..Len(route.localized_routes) :
                       gen.text = format_components(route, route.localized_routes[k].path,
                                                    in_value, in_flag, 1, 0)
                                  \o sub_url.text
                                  \o (IF route.localized_routes[k].path.trailing_slash
                                      THEN <<"/">> ELSE <<>>)

\* A path of the outer variant qualifies for the target locale, the sub-route value
\* has no url for it, and nothing was generated.
C11_Witness ==
    /\ op = "generate"
    /\ HasSub(in_value)
    /\ in_locale.some
    /\ decl[1][RouteOfValue(in_value)].localized_routes[1].locales # <<>>
    /\ Qualifies(decl[1][RouteOfValue(in_value)].localized_routes[1], in_locale)
    /\ ~generate_url(decl, 2, Head(in_value.sub), in_locale, in_flag).some
    /\ ~gen.some

\* C12: without i18n generation always succeeds.  When every path of the value's
\* variant and of the variants of the values nested in it is declared without
\* locales, generate_url returns Some for every target locale, None included.
C12_NoI18nAlwaysSome ==
    (op = "generate" /\ NoI18n(1, in_value)) => gen.some

\* A url was generated without a target locale for a value with a sub-route value,
\* no path of which has locales.
C12_Witness ==
    /\ op = "generate"
    /\ NoI18n(1, in_value)
    /\ HasSub(in_value)
    /\ ~in_locale.some
    /\ gen.some

\* The same for a target locale that no route of the program declares.
C12_WitnessUndeclared ==
    /\ op = "generate"
    /\ NoI18n(1, in_value)
    /\ in_locale = SomeLocale("es")
    /\ \A t \in 1..Len(decl) : \A r \in 1..Len(decl[t]) :
           \A k \in 1..Len(decl[t][r].localized_routes) :
               ~Contains(decl[t][r].localized_routes[k].locales, "es")
    /\ gen.some

-----------------------------------------------------------------------------
(* What the properties of the query parameters read off a state.           *)

\* The last call parsed a url.
QParsed == qop \in {"parse", "reparse"}

\* What the path of the url parses to, the query string left aside.
PathParsed ==
    parse_with_accepted_locales(qdecl.types, 1, url_path(q_url), AnyAccepted, q_flag)

\* The query parameters of a value of the enum at t and of the values nested in it,
\* outermost first.
RECURSIVE ChainParams(_, _)
ChainParams(t, v) ==
    <<qdecl.query_params[t][RouteOf(qdecl.types, t, v)]>>
    \o (IF v.sub # <<>> THEN ChainParams(t + 1, Head(v.sub)) ELSE <<>>)

\* The values the query string of the url gives a name, in the order of the url.
ValuesOfKey(url, name) ==
    LET pairs == SelectSeq(url_qstring(url), LAMBDA pair : pair.name = name)
    IN  [i \in 1..Len(pairs) |-> pairs[i].value.text]

\* A mandatory query parameter of the chain has no pair in the query string.
MandatoryAbsent(chain, url) ==
    \E l \in 1..Len(chain) : \E i \in 1..Len(chain[l]) :
        chain[l][i].mode = "Mandatory" /\ ValuesOfKey(url, chain[l][i].name) = <<>>

\* The text of the url behind its first "?", and its pieces between "&".
QueryText(url) == SubSeq(url, Len(url_path(url)) + 2, Len(url))
QueryPieces(url) == IF QueryText(url) = <<>> THEN <<>> ELSE Split(QueryText(url), "&")

StartsWith(s, prefix) == Len(s) >= Len(prefix) /\ SubSeq(s, 1, Len(prefix)) = prefix

\* A value as the query string writes it: percent-encoded, a space as "+", a "+" as
\* "%2B".
Written(text) ==
    Replace(Replace(QString_encode(text), <<"+">>, <<"%", "2", "B">>),
            <<"%", "2", "0">>, <<"+">>)

\* A value of the query string as it is read: "+" a space, then percent-decoded.
Read(text) == QString_decode(Replace(text, <<"+">>, <<"%", "2", "0">>))

\* C13: a mandatory query parameter whose key is absent from the query string makes
\* parse return None, be it a parameter of the outer variant or of the sub-route
\* variant the path leads to, and whether or not the rest would match.
C13_MandatoryAbsent ==
    QParsed =>
        \A r \in {PathParsed} :
            (~r.some \/ MandatoryAbsent(ChainParams(1, r.route), q_url))
                => ~q_result.some

\* The path matches down to the sub-route, the mandatory parameter of the outer
\* variant is given, that of the sub-route variant is not, and parse returned None.
C13_Witness ==
    /\ qop = "parse"
    /\ Nested(qdecl)
    /\ \E r \in {PathParsed} :
           /\ r.some
           /\ r.route.sub # <<>>
           /\ \E chain \in {ChainParams(1, r.route)} :
                  /\ chain[1] # <<>>
                  /\ ~MandatoryAbsent(<<chain[1]>>, q_url)
                  /\ MandatoryAbsent(<<chain[2]>>, q_url)
    /\ ~q_result.some

\* The same with the mandatory parameter of the outer variant absent and everything
\* the sub-route variant asks for given.
C13_WitnessOuter ==
    /\ qop = "parse"
    /\ Nested(qdecl)
    /\ \E r \in {PathParsed} :
           /\ r.some
           /\ r.route.sub # <<>>
           /\ \E chain \in {ChainParams(1, r.route)} :
                  /\ MandatoryAbsent(<<chain[1]>>, q_url)
                  /\ \A i \in 1..Len(chain[2]) :
                         ValuesOfKey(q_url, chain[2][i].name) # <<>>
    /\ ~q_result.some

\* C14: when the path matches and no mandatory parameter is absent, parse succeeds;
\* an optional parameter whose key is absent is None, a parameter with a default
\* whose key is absent is the default, and a parameter whose key is present is a
\* value the query string gives the key.
C14_OptionalAndDefault ==
    QParsed =>
        \A r \in {PathParsed} :
            (r.some /\ ~MandatoryAbsent(ChainParams(1, r.route), q_url)) =>
                /\ q_result.some
                /\ q_result.route = r.route
                /\ \A chain \in {ChainParams(1, r.route)} :
                       \A l \in 1..Len(chain) : \A i \in 1..Len(chain[l]) :
                           LET param == chain[l][i]
                               field == q_result.query[l][i]
                               given == ValuesOfKey(q_url, param.name)
                           IN  IF given # <<>>
                               THEN field.some /\ field.text \in Range(given)
                               ELSE CASE param.mode = "Optional" -> field = NoText
                                      [] param.mode = "WithDefaultValue" ->
                                             field = SomeText(param.default)
                                      [] OTHER -> FALSE

\* A url was parsed that gives neither the optional parameter nor the one with a
\* default: the first is None, the second the default.
C14_Witness ==
    /\ qop = "parse"
    /\ Nested(qdecl)
    /\ q_result.some
    /\ Len(q_result.query) = 2
    /\ Len(q_result.query[2]) = 2
    /\ ValuesOfKey(q_url, k_o) = <<>>
    /\ ValuesOfKey(q_url, k_d) = <<>>
    /\ q_result.query[2] = <<NoText, SomeText(a)>>

\* A url was parsed that gives both: each is the value given, not None and not the
\* default.
C14_WitnessPresent ==
    /\ qop = "parse"
    /\ q_result.some
    /\ Len(q_result.query) = 2
    /\ ValuesOfKey(q_url, k_o) = <<b>>
    /\ ValuesOfKey(q_url, k_d) = <<b>>
    /\ q_result.query[2] = <<SomeText(b), SomeText(b)>>

\* The pairs a value must write: for the value, then for the values nested in it,
\* one pair for each mandatory field, each optional field that is Some and each
\* field with a default that differs from the default, in the order declared.
RECURSIVE ExpectedPairs(_, _)
ExpectedPairs(chain, query) ==
    IF chain = <<>> THEN <<>>
    ELSE LET params == Head(chain)
             fields == Head(query)
             kept == SelectSeq([i \in 1..Len(params) |-> i],
                               LAMBDA i :
                                   \/ params[i].mode = "Mandatory"
                                   \/ params[i].mode = "Optional" /\ fields[i].some
                                   \/ /\ params[i].mode = "WithDefaultValue"
                                      /\ fields[i].text # params[i].default)
         IN  [k \in 1..Len(kept) |-> <<params[kept[k]].name, fields[kept[k]].text>>]
             \o ExpectedPairs(Tail(chain), Tail(query))

\* C15: the url generated is the url of the path, and behind it, only when a pair
\* is to be written, "?" and the pairs key=value between "&": exactly one pair for
\* each mandatory parameter, each optional parameter that is present and each
\* parameter with a default whose value differs from it, in the order declared, the
\* outer variant's before the sub-route's.
C15_QueryGeneration ==
    (qop = "generate" /\ q_gen.some) =>
        \A pairs \in {ExpectedPairs(ChainParams(1, q_value), q_query)} :
            LET path == generate_url(qdecl.types, 1, q_value, q_locale, q_flag).text
                pieces == QueryPieces(q_gen.text)
            IN  /\ url_path(q_gen.text) = path
                /\ Contains(q_gen.text, "?") <=> pairs # <<>>
                /\ Len(pieces) = Len(pairs)
                /\ \A k \in 1..Len(pairs) :
                       pieces[k] = pairs[k][1] \o <<"=">> \o Written(pairs[k][2])

\* A url was generated with three pairs: the mandatory parameter of the outer variant,
\* then the optional one and the one with a default of the sub-route variant.
C15_Witness ==
    /\ qop = "generate"
    /\ q_gen.some
    /\ Len(q_query) = 2
    /\ Len(q_query[1]) = 1
    /\ Len(q_query[2]) = 2
    /\ q_query[2][1].some
    /\ q_query[2][2] # SomeText(a)
    /\ Len(QueryPieces(q_gen.text)) = 3

\* A url was generated without "?": the optional field is None and the field with a
\* default is the default.
C15_WitnessNone ==
    /\ qop = "generate"
    /\ q_gen.some
    /\ Len(q_query) = 2
    /\ q_query[1] = <<>>
    /\ q_query[2] = <<NoText, SomeText(a)>>
    /\ ~Contains(q_gen.text, "?")

\* C17: the query parameter fields come back.  For every text of a query parameter
\* field, parse of the url generate_url returned succeeds and binds the fields the
\* value had.
C17_QueryRoundTrip ==
    qop = "reparse" => (q_result.some /\ q_result.query = q_query)

\* C18: the flags are about the path parameters only.  parse leaves a path parameter
\* as the url has it unless decode_params, and reads a query value ("+" a space, then
\* percent-decoded) both with and without decode_params; generate_url writes a path
\* parameter as it is unless encode_params, and writes a query value percent-encoded
\* both with and without encode_params.
C18_FlagsArePathOnly ==
    /\ (qop = "parse" /\ ~Nested(qdecl) /\ q_result.some
           /\ q_result.route.variant = "Hello") =>
          LET segment == Split(url_path(q_url), "/")[3]
              pieces == QueryPieces(q_url)
          IN  /\ q_result.route.fields[1] =
                     (IF q_flag THEN decode_param(segment).text ELSE segment)
              /\ (Len(pieces) = 1 /\ StartsWith(pieces[1], <<"q", "=">>)) =>
                     q_result.query[1][1] =
                         SomeText(Read(SubSeq(pieces[1], 3, Len(pieces[1]))))
    /\ (qop = "generate" /\ ~Nested(qdecl) /\ q_gen.some /\ q_value.variant = "Hello") =>
          LET pieces == QueryPieces(q_gen.text)
          IN  /\ url_path(q_gen.text) =
                     <<"/", "b", "/">>
                     \o (IF q_flag THEN encode_param(q_value.fields[1])
                         ELSE q_value.fields[1])
              /\ Len(pieces) = 1 =>
                     pieces[1] = <<"q", "=">> \o Written(q_query[1][1].text)

\* parse without decode_params left "%20" in the path parameter and read "%2B" of
\* the query string as "+".
C18_Witness ==
    /\ qop = "parse"
    /\ ~q_flag
    /\ q_result.some
    /\ q_result.route.variant = "Hello"
    /\ q_result.route.fields[1] = <<"a", "%", "2", "0">>
    /\ QueryPieces(q_url) = <<<<"q", "=", "%", "2", "B">>>>
    /\ q_result.query[1][1] = SomeText(<<"+">>)

\* generate_url without encode_params left the space of the path parameter and wrote
\* the "&" of the query value as "%26".
C18_WitnessGenerate ==
    /\ qop = "generate"
    /\ ~q_flag
    /\ q_gen.some
    /\ q_value.variant = "Hello"
    /\ q_value.fields[1] = <<"a", " ">>
    /\ q_query[1][1] = SomeText(<<"&">>)
    /\ q_gen.text = <<"/", "b", "/", "a", " ", "?", "q", "=", "%", "2", "6">>

-----------------------------------------------------------------------------
(* The empty path, and the path handed to a sub-route.                     *)

\* The variants of the enum at 1 with the pattern "/": no component, no sub-route,
\* trailing_slash.
RootVariants ==
    {decl[1][r].variant : r \in {r \in 1..Len(decl[1]) :
        \E k \in 1..Len(decl[1][r].localized_routes) :
            decl[1][r].localized_routes[k].path = p_root}}

\* C19: parse("") returns what parse("/") returns, and both return a variant whose
\* pattern is "/" (no component, trailing_slash) when the enum declares one.
C19_EmptyIsRoot ==
    (op = "parse" /\ in_url \in {<<>>, <<"/">>}) =>
        /\ \A other \in {parse(decl, IF in_url = <<>> THEN <<"/">> ELSE <<>>, in_flag)} :
               result = [other EXCEPT !.calls = <<>>]
        /\ RootVariants # {} => (result.some /\ result.route.variant \in RootVariants)

\* The empty url was parsed by an enum that declares "/" and a pattern of one
\* parameter, and the variant of "/" came back.
C19_Witness ==
    /\ op = "parse"
    /\ in_url = <<>>
    /\ RootVariants # {}
    /\ \E r \in 1..Len(decl[1]) : decl[1][r].localized_routes[1].path = p_p
    /\ result.some
    /\ result.route.variant \in RootVariants

\* The calls of the last parse whose router chose a pattern with a sub-route.
SubCalls ==
    {i \in Selected : PathOf(calls[i].type, calls[i].entry).sub_route # <<>>}

\* The segments of the path of call i, and those behind the components of the
\* pattern chosen.
SegmentsOf(i) == Split(StripSlash(calls[i].url), "/")
RestOf(i) ==
    SubSeq(SegmentsOf(i), Len(PathOf(calls[i].type, calls[i].entry).components) + 1,
           Len(SegmentsOf(i)))

\* C20, as claimed: a pattern with a sub-route is chosen only for a path that has a
\* segment that is not empty behind the components of the pattern.
C20_SubRouteNeedsSegment ==
    \A i \in SubCalls : \E k \in 1..Len(RestOf(i)) : RestOf(i)[k] # <<>>

\* C20, amended: a pattern with a sub-route is chosen only for a path that has at
\* least one character behind the components of the pattern and the "/" that
\* follows them; a path that ends with the components, with or without a "/" behind
\* them, does not match; and the nested parse is handed the characters that remain,
\* never an empty text.
C20_CaptureNonEmpty ==
    \A i \in SubCalls :
        /\ RestOf(i) # <<>>
        /\ Tail(SlashJoin(RestOf(i))) # <<>>
        /\ calls[i].accepts =>
               /\ i < Len(calls)
               /\ calls[i + 1].url = Tail(SlashJoin(RestOf(i)))

\* The path "/a//" was parsed: the pattern "/a/.." was chosen and the nested parse
\* was handed "/", a text of empty segments only.
C20_Witness ==
    /\ op = "parse"
    /\ in_url = <<"/", "a", "/", "/">>
    /\ 1 \in SubCalls
    /\ Len(calls) >= 2
    /\ calls[2].url = <<"/">>

\* The paths "/a" and "/a/" end with the components of "/a/..": the pattern was not
\* chosen and no nested parse was called.
C20_WitnessPrefix ==
    /\ op = "parse"
    /\ in_url \in {<<"/", "a">>, <<"/", "a", "/">>}
    /\ Len(decl) = 3
    /\ PathOf(1, 1) = p_a_sub
    /\ ~matches_alone(p_a_sub, in_url)
    /\ Len(calls) = 1
    /\ calls[1].entry # 1

-----------------------------------------------------------------------------
(* All of a route value or none of it.                                     *)

\* What the router recognizes for call i of the last parse.
MatchOf(i) == recognize(ROUTER(decl[calls[i].type]), calls[i].url)

\* The variant of the entry call i selected.
RouteOfCall(i) == decl[calls[i].type][EntriesOf(calls[i].type)[calls[i].entry].route]

\* The name under which the router captured the text of field k of the variant.
CaptureName(route, k) ==
    IF route.fields = "Named" THEN route.field_names[k] ELSE unnamed_param_name(k - 1)

\* A text with a "%" and two hex digits that stand for a byte of no character.
InvalidCode(text) ==
    \E j \in 1..(Len(text) - 2) :
        /\ text[j] = "%"
        /\ IsHexDigit(text[j + 1])
        /\ IsHexDigit(text[j + 2])
        /\ 16 * HexValue(text[j + 1]) + HexValue(text[j + 2]) >= 128

IsNumber(text) ==
    \A digits \in {IF text # <<>> /\ Head(text) = "+" THEN Tail(text) ELSE text} :
        digits # <<>> /\ \A j \in 1..Len(digits) : IsDigit(digits[j])

\* The text captured for field k of call i fails: it does not decode, or what is
\* to be parsed (the text decoded if the flag is set, else the text) is no value of
\* the field's type.
FieldFails(i, k) ==
    \A text \in {find(MatchOf(i).params, CaptureName(RouteOfCall(i), k))} :
        \/ in_flag /\ InvalidCode(text)
        \/ /\ field_type(RouteOfCall(i), k) = "u32"
           /\ ~IsNumber(IF in_flag THEN decode_param(text).text ELSE text)

\* A route value with every field of its variant, a value of the field's type, and
\* with a sub-route value, as complete, exactly when the variant has a sub-route.
RECURSIVE Complete(_, _)
Complete(t, v) ==
    /\ \E r \in 1..Len(decl[t]) : decl[t][r].variant = v.variant
    /\ \A route \in {decl[t][CHOOSE r \in 1..Len(decl[t]) : decl[t][r].variant = v.variant]} :
           /\ Len(v.fields) = Len(route.field_names)
           /\ \A k \in 1..Len(v.fields) :
                  field_type(route, k) = "u32" =>
                      (IsNumber(v.fields[k]) /\ StripZeros(v.fields[k]) = v.fields[k])
           /\ (v.sub # <<>>) = (route.localized_routes[1].path.sub_route # <<>>)
           /\ v.sub # <<>> => Complete(t + 1, Head(v.sub))

\* C21: parse returns all of a route value or None.  A call of
\* parse_with_accepted_locales returns Some exactly when the router recognizes the
\* path, the entry's locales are accepted, no captured text fails to decode (with
\* decode_params) or to parse into its field, and the nested call, if the pattern has
\* a sub-route, returns Some; parse returns Some exactly when every call did, and then
\* the value is complete; every parameter the generated code unwraps was captured.
C21_AllOrNone ==
    op \in {"parse", "reparse"} =>
        /\ \A i \in 1..Len(calls) :
               /\ calls[i].entry # 0 =>
                      \A path \in {PathOf(calls[i].type, calls[i].entry)} :
                          /\ \A k \in 1..Len(params_of(path)) :
                                 \E p \in Range(MatchOf(i).params) :
                                     p.name = CaptureName(RouteOfCall(i), k)
                          /\ path.sub_route # <<>> =>
                                 \E p \in Range(MatchOf(i).params) :
                                     p.name = sub_route_param_name(path.sub_route)
               /\ calls[i].some =
                      /\ calls[i].entry # 0
                      /\ calls[i].accepts
                      /\ \A path \in {PathOf(calls[i].type, calls[i].entry)} :
                             /\ \A k \in 1..Len(params_of(path)) : ~FieldFails(i, k)
                             /\ path.sub_route # <<>> =>
                                    /\ i < Len(calls)
                                    /\ calls[i + 1].some
        /\ calls # <<>>
        /\ result.some = (\A i \in 1..Len(calls) : calls[i].some)
        /\ result.some => Complete(1, result.route)
        /\ ~result.some => (result.route = NoValue /\ result.locales = <<>>)

\* "/a/a" was parsed by enum Outer: "/a/.." was chosen and accepted, the nested enum
\* chose "/:" of Age(u32) for "a", which is no u32, and parse returned None.
C21_Witness ==
    /\ op = "parse"
    /\ in_url = <<"/", "a", "/", "a">>
    /\ Len(decl) = 2
    /\ Len(calls) = 2
    /\ calls[1].accepts
    /\ calls[2].entry # 0
    /\ field_type(RouteOfCall(2), 1) = "u32"
    /\ FieldFails(2, 1)
    /\ ~result.some

\* "/a/a/%ff" was parsed with decode_params: the first field parses, the text of
\* the second does not decode, and parse returned None.
C21_WitnessDecode ==
    /\ op = "parse"
    /\ in_flag
    /\ in_url = <<"/", "a", "/", "a", "/", "%", "f", "f">>
    /\ Len(decl) = 1
    /\ calls[1].entry # 0
    /\ ~FieldFails(1, 1)
    /\ FieldFails(1, 2)
    /\ ~result.some

\* "/a/a/%2B1" was parsed with decode_params: "+1" is the u32 1.
C21_WitnessSome ==
    /\ op = "parse"
    /\ in_flag
    /\ in_url = <<"/", "a", "/", "a", "/", "%", "2", "B", "1">>
    /\ Len(decl) = 1
    /\ result.some
    /\ result.route = RouteValue("HelloWithNameAndAge", <<a, <<"1">>>>, <<>>)

-----------------------------------------------------------------------------
(* The recursion into the sub-routes.                                      *)

\* C23: the accepted locales only narrow down the recursion.  Each call after the
\* first is the nested call of the one before it and is handed what
\* accepted_locales_for_sub_route makes of the caller's set and the locales of the
\* entry chosen; when the caller's set is Some(A), the set handed down is Some(B)
\* with every locale of B in A, and never Any.
C23_NarrowsDown ==
    op \in {"parse", "reparse"} =>
        \A i \in 1..(Len(calls) - 1) :
            /\ calls[i + 1].type = calls[i].type + 1
            /\ calls[i + 1].accepted =
                   accepted_locales_for_sub_route(
                       calls[i].accepted,
                       ROUTE_LOCALES(LocalizedRouteOf(calls[i].type, calls[i].entry)))
            /\ calls[i].accepted.kind = "Some" =>
                   /\ calls[i + 1].accepted.kind = "Some"
                   /\ Range(calls[i + 1].accepted.locales)
                          \subseteq Range(calls[i].accepted.locales)

\* A parse of three calls: the first accepts any locale, the second [en, fr], the
\* third [en] only.
C23_Witness ==
    /\ op = "parse"
    /\ Len(calls) = 3
    /\ calls[1].accepted = AnyAccepted
    /\ calls[2].accepted = SomeAccepted(<<"en", "fr">>)
    /\ calls[3].accepted = SomeAccepted(<<"en">>)

IsSuffix(s, u) == Len(s) <= Len(u) /\ SubSeq(u, Len(u) - Len(s) + 1, Len(u)) = s

RECURSIVE NestedValue(_, _)
NestedValue(v, d) == IF d = 0 THEN v ELSE NestedValue(Head(v.sub), d - 1)

RECURSIVE Depth(_)
Depth(v) == IF v.sub = <<>> THEN 0 ELSE 1 + Depth(Head(v.sub))

C27_WitnessStar ==
    /\ op = "generate"
    /\ gen.some
    /\ in_value.variant = "All"
    /\ gen.text = <<"/", "a">>

\* The locales to generate for after a parse that returned the list L: each
\* locale of L, or None when L is empty.
LocalesToGenerate(L) ==
    IF L = <<>> THEN {NoLocale} ELSE {SomeLocale(L[i]) : i \in 1..Len(L)}

\* C28, as claimed: when parse(u, false) returns Some((v, L)), generate_url(v, l,
\* false) returns Some(u) for every locale l of L, and for None when L is empty.
C28_ParseThenGenerate ==
    (op = "parse" /\ ~in_flag /\ result.some) =>
        \A l \in LocalesToGenerate(result.locales) :
            generate_url(decl, 1, result.route, l, FALSE) = SomeText(in_url)

\* The text the router captured for field k of the variant of call i.
CapturedText(i, k) == find(MatchOf(i).params, CaptureName(RouteOfCall(i), k))

\* Call i chose the localized route that generate_url chooses for the locale, and
\* every field of its variant is written as the text it was parsed from.
GeneratedAsParsed(i, l) ==
    /\ matching_arm(RouteOfCall(i), l)
           = EntriesOf(calls[i].type)[calls[i].entry].localized
    /\ \A k \in 1..Len(params_of(PathOf(calls[i].type, calls[i].entry))) :
           str_parse(field_type(RouteOfCall(i), k), CapturedText(i, k))
               = SomeText(CapturedText(i, k))

\* The url begins with "/" and no "/" stands right behind the "/" in front of a
\* sub-route: no path handed to a nested call begins with "/".
SingleSlashes ==
    /\ in_url # <<>>
    /\ Head(in_url) = "/"
    /\ \A i \in 2..Len(calls) : Head(calls[i].url) # "/"

\* C28, amended: when parse(u, false) returns Some((v, L)), generate_url(v, l,
\* false) returns Some for every locale l of L, and for None when L is empty.  The
\* url returned is u when u begins with "/", no sub-route begins with a further "/",
\* every localized route the parse chose is the first of its variant that is of any
\* locale or of l, and every field is written as the text it was parsed from; for
\* the empty u it is "/".
C28_ParseThenGenerateFirst ==
    (op = "parse" /\ ~in_flag /\ result.some) =>
        \A l \in LocalesToGenerate(result.locales) :
            \A g \in {generate_url(decl, 1, result.route, l, FALSE)} :
                /\ g.some
                /\ (SingleSlashes /\ \A i \in 1..Len(calls) : GeneratedAsParsed(i, l)) =>
                       g.text = in_url
                /\ in_url = <<>> => g.text = <<"/">>

\* "/a" was parsed by a variant declared #[route("/")] #[route(es => "/a")]: the
\* list is [es], and the url generated for es is "/", of the first route.
C28_Witness ==
    /\ op = "parse"
    /\ ~in_flag
    /\ in_url = <<"/", "a">>
    /\ result.some
    /\ result.locales = <<"es">>
    /\ generate_url(decl, 1, result.route, SomeLocale("es"), FALSE) = SomeText(<<"/">>)

\* "/a/a/1" was parsed, and the url generated for no locale is "/a/a/1".
C28_WitnessSame ==
    /\ op = "parse"
    /\ ~in_flag
    /\ in_url = <<"/", "a", "/", "a", "/", "1">>
    /\ result.some
    /\ result.locales = <<>>
    /\ GeneratedAsParsed(1, NoLocale)
    /\ generate_url(decl, 1, result.route, NoLocale, FALSE) = SomeText(in_url)

\* "/01" was parsed into the u32 1, and the url generated is "/1".
C28_WitnessNumber ==
    /\ op = "parse"
    /\ ~in_flag
    /\ in_url = <<"/", "0", "1">>
    /\ result.some
    /\ result.route = RouteValue("Number", <<<<"1">>>>, <<>>)
    /\ generate_url(decl, 1, result.route, NoLocale, FALSE) = SomeText(<<"/", "1">>)

\* C30: no constraint and no locale are never taken for one another in a parse that
\* starts from Any.  The first call accepts Any; no call is handed Some of the empty
\* list; and a parse that returns Some returns the empty list exactly when every
\* localized route on the chain of entries chosen is of any locale.
C30_AnyIsNotEmpty ==
    (op \in {"parse", "reparse"}) =>
        /\ calls[1].accepted = AnyAccepted
        /\ \A i \in 1..Len(calls) : calls[i].accepted # SomeAccepted(<<>>)
        /\ result.some =>
               ((result.locales = <<>>)
                   = (\A i \in 1..Len(calls) :
                          LocalizedRouteOf(calls[i].type, calls[i].entry).locales = <<>>))

\* A parse of three calls returned the empty list: the chain is of any locale.
C30_Witness ==
    /\ op = "parse"
    /\ result.some
    /\ Len(calls) = 3
    /\ result.locales = <<>>

\* A parse returned a list that is not empty: the first entry is of any locale, the
\* second of [fr, en], the third of [fr], and the list is [fr].
C30_WitnessSome ==
    /\ op = "parse"
    /\ result.some
    /\ Len(calls) = 3
    /\ LocalizedRouteOf(1, calls[1].entry).locales = <<>>
    /\ LocalizedRouteOf(2, calls[2].entry).locales = <<"fr", "en">>
    /\ LocalizedRouteOf(3, calls[3].entry).locales = <<"fr">>
    /\ result.locales = <<"fr">>

-----------------------------------------------------------------------------
(* The derive macro.  Route::from_variant reads the attributes of one enum *)
(* variant and returns the Route the code generators work from, or the      *)
(* error the compilation stops with.  An attribute is given here as the     *)
(* LocalizedRoute it parses to, its locales a HashSet<String>; the empty    *)
(* set is what an attribute without locales parses to.                      *)

\* The most attributes on a variant.
MaxAttrs == 3

\* syn::Variant, as far as from_variant reads it: the kind of variant.fields, and for
\* each field whether it carries #[query_param].
Variant(fields, query_param) ==
    [fields |-> fields, len |-> Len(query_param), query_param |-> query_param]

\* #[route(...)], parsed
RouteAttr(path, locales) == [ident |-> "route", path |-> path, locales |-> locales]

\* an attribute that is not a route, such as a doc comment
OtherAttr == [ident |-> "doc", path |-> Path(<<>>, <<>>, FALSE), locales |-> {}]

\* syn::Result<Route>
Ok(localized_routes, query_params) ==
    [ok |-> TRUE, error |-> "",
     localized_routes |-> localized_routes, query_params |-> query_params]
Err(message) ==
    [ok |-> FALSE, error |-> message, localized_routes |-> <<>>, query_params |-> <<>>]

MultipleRoutes == "You cannot define multiple routes for the same locale"
OnlyNamed ==
    "This route can only have named params and sub-routes, because this enum variant has named fields"
OnlyUnnamed ==
    "This route can only have unnamed params and sub-routes, because this enum variant has unnamed fields"
WrongNumber == "This route has {} unnamed params and sub-routes, but this enum variant has {} fields"
NamedFieldsOnly == "Only named fields can be query string parameters"
AtLeastOneRoute == "Every variant must have at least one route"

\* Path::contains_unnamed_params_and_sub_routes
contains_unnamed_params_and_sub_routes(path) ==
    \/ (path.sub_route # <<>> /\ Head(path.sub_route) = "..")
    \/ \E k \in 1..Len(path.components) :
           path.components[k].kind = "Param" /\ path.components[k].value = <<>>

\* Path::contains_named_params_and_sub_routes
contains_named_params_and_sub_routes(path) ==
    \/ (path.sub_route # <<>> /\ Head(path.sub_route) # "..")
    \/ \E k \in 1..Len(path.components) :
           path.components[k].kind = "Param" /\ path.components[k].value # <<>>

\* A validation that counts nothing.
validate_localized_route_uncounted(localized_route, variant) ==
    IF variant.fields = "Named"
    THEN IF contains_unnamed_params_and_sub_routes(localized_route.path)
         THEN OnlyNamed ELSE ""
    ELSE IF contains_named_params_and_sub_routes(localized_route.path)
         THEN OnlyUnnamed ELSE ""

\* validate_localized_route: the message of the error, "" for Ok(()).
validate_localized_route(localized_route, variant) ==
    IF variant.fields = "Named"
    THEN IF contains_unnamed_params_and_sub_routes(localized_route.path)
         THEN OnlyNamed ELSE ""
    ELSE IF contains_named_params_and_sub_routes(localized_route.path)
         THEN OnlyUnnamed
         ELSE LET number_of_params_and_sub_routes ==
                      Len(params_of(localized_route.path))
                      + (IF localized_route.path.sub_route # <<>> THEN 1 ELSE 0)
              IN  IF number_of_params_and_sub_routes = variant.len
                  THEN "" ELSE WrongNumber

\* A check that looks at the localized route pushed last only.
accepts_locale_last(localized_routes, locale) ==
    /\ localized_routes # <<>>
    /\ locale \in localized_routes[Len(localized_routes)].locales

\* Route::accepts_locale
accepts_locale(localized_routes, locale) ==
    \E k \in 1..Len(localized_routes) : locale \in localized_routes[k].locales

\* from_variant, the match on find: the locales of the attribute are added to the
\* first localized route of an equal path, or the attribute is pushed.
merge(localized_routes, new_localized_route) ==
    IF \E k \in 1..Len(localized_routes) :
           localized_routes[k].path = new_localized_route.path
    THEN LET k == CHOOSE k \in 1..Len(localized_routes) :
                      /\ localized_routes[k].path = new_localized_route.path
                      /\ \A j \in 1..(k - 1) :
                             localized_routes[j].path # new_localized_route.path
         IN  [localized_routes EXCEPT
                 ![k].locales = @ \cup new_localized_route.locales]
    ELSE Append(localized_routes, new_localized_route)

\* from_variant, the loop on variant.attrs from attribute i on: the message of the
\* first error, or "" and the localized routes.
RECURSIVE route_attributes(_, _, _, _)
route_attributes(variant, attrs, i, localized_routes) ==
    IF i > Len(attrs) THEN [error |-> "", localized_routes |-> localized_routes]
    ELSE IF attrs[i].ident # "route"
         THEN route_attributes(variant, attrs, i + 1, localized_routes)
    ELSE LET new_localized_route ==
                 LocalizedRoute(attrs[i].path, attrs[i].locales)
             invalid == validate_localized_route(new_localized_route, variant)
         IN  IF invalid # ""
             THEN [error |-> invalid, localized_routes |-> <<>>]
             ELSE IF \E locale \in new_localized_route.locales :
                         accepts_locale(localized_routes, locale)
             THEN [error |-> MultipleRoutes, localized_routes |-> <<>>]
             ELSE route_attributes(variant, attrs, i + 1,
                                   merge(localized_routes, new_localized_route))

\* from_variant, the loop on variant.fields: the fields that are query parameters,
\* or the error for one that has no name.
query_params_of(variant) ==
    IF \A i \in 1..variant.len : ~variant.query_param[i]
    THEN [error |-> "", query_params |-> <<>>]
    ELSE IF variant.fields = "Named"
         THEN [error |-> "",
               query_params |-> SelectSeq([i \in 1..variant.len |-> i],
                                          LAMBDA i : variant.query_param[i])]
         ELSE [error |-> NamedFieldsOnly, query_params |-> <<>>]

\* Route::from_variant
from_variant(variant, attrs) ==
    LET routes == route_attributes(variant, attrs, 1, <<>>)
        params == query_params_of(variant)
    IN  IF routes.error # "" THEN Err(routes.error)
        ELSE IF params.error # "" THEN Err(params.error)
        ELSE IF routes.localized_routes = <<>> THEN Err(AtLeastOneRoute)
        ELSE Ok(routes.localized_routes, params.query_params)

\* The paths written in the attributes.
p_a_only == Path(<<Static(a)>>, <<>>, FALSE)                          \* "/a"
p_b_only == Path(<<Static(b)>>, <<>>, FALSE)                          \* "/b"
p_unnamed == Path(<<Static(a), Param(<<>>)>>, <<>>, FALSE)            \* "/a/:"
p_named == Path(<<Static(a), Param(<<"name">>)>>, <<>>, FALSE)        \* "/a/:name"
p_a_unnamed_sub == Path(<<Static(a)>>, <<"..">>, FALSE)               \* "/a/.."

\* The sets of locales written in the attributes.
LocaleSets == {{}, {"en"}, {"fr"}, {"en", "fr"}}

\* The attributes a variant is given.
Attrs ==
    {RouteAttr(path, locales) : path \in {p_a_only, p_b_only}, locales \in LocaleSets}
    \cup {RouteAttr(path, {}) : path \in {p_unnamed, p_named, p_a_unnamed_sub, p_a_named_sub}}
    \cup {OtherAttr}

\* The variants: V, V(T), V(#[query_param] T), V(T, U), V { name: T },
\* V { name: T, #[query_param] q: U }.
Variants ==
    {Variant("Unit", <<>>),
     Variant("Unnamed", <<FALSE>>), Variant("Unnamed", <<TRUE>>),
     Variant("Unnamed", <<FALSE, FALSE>>),
     Variant("Named", <<FALSE>>), Variant("Named", <<FALSE, TRUE>>)}

\* A variant and its attributes, before the macro runs.
CompileInit ==
    /\ c_variant \in Variants
    /\ c_attrs \in SeqsUpTo(Attrs, MaxAttrs)
    /\ c_result = Err("")
    /\ cop = "init"
    /\ MainIdle
    /\ QueryIdle
    /\ LazyIdle

\* Route::from_variant(&variant)
FromVariant ==
    /\ cop = "init"
    /\ c_result' = from_variant(c_variant, c_attrs)
    /\ cop' = "from_variant"
    /\ UNCHANGED <<c_variant, c_attrs, mainVars, localeVars, queryVars, lazyVars>>

CompileNext == FromVariant

CompileSpec == CompileInit /\ [][CompileNext]_vars

-----------------------------------------------------------------------------
(* What the derive macro refuses, and what it keeps.                        *)

\* The positions of the route attributes of the variant.
RoutePositions == {i \in 1..Len(c_attrs) : c_attrs[i].ident = "route"}

\* C25: from_variant fails when a route attribute declares a locale that an earlier
\* route attribute of the variant declares, whether their paths are equal or not;
\* and in the Route it returns, each locale is in the set of at most one localized
\* route.
C25_OneRoutePerLocale ==
    cop = "from_variant" =>
        /\ (\E i, j \in RoutePositions :
                i < j /\ c_attrs[i].locales \cap c_attrs[j].locales # {})
            => ~c_result.ok
        /\ c_result.ok =>
               \A i, j \in 1..Len(c_result.localized_routes) :
                   i # j => c_result.localized_routes[i].locales
                            \cap c_result.localized_routes[j].locales = {}

\* "en" on "/a" and then on "/b": the error of the second attribute.
C25_Witness ==
    /\ cop = "from_variant"
    /\ c_attrs = <<RouteAttr(p_a_only, {"en"}), RouteAttr(p_b_only, {"en", "fr"})>>
    /\ c_result = Err(MultipleRoutes)

\* "en" twice on "/a": the same error.
C25_WitnessSamePath ==
    /\ cop = "from_variant"
    /\ c_attrs = <<RouteAttr(p_a_only, {"en"}), RouteAttr(p_a_only, {"en"})>>
    /\ c_result = Err(MultipleRoutes)

\* "en" on "/a" and "fr" on "/b" compile to two localized routes.
C25_WitnessOk ==
    /\ cop = "from_variant"
    /\ c_attrs = <<RouteAttr(p_a_only, {"en"}), RouteAttr(p_b_only, {"fr"})>>
    /\ c_result.ok
    /\ Len(c_result.localized_routes) = 2

\* The parameters of a path that have a name, and those that have none.
NamedParams(path) ==
    {k \in 1..Len(path.components) :
        path.components[k].kind = "Param" /\ path.components[k].value # <<>>}
UnnamedParams(path) ==
    {k \in 1..Len(path.components) :
        path.components[k].kind = "Param" /\ path.components[k].value = <<>>}
HasNamedSubRoute(path) == path.sub_route # <<>> /\ path.sub_route # <<"..">>
HasUnnamedSubRoute(path) == path.sub_route = <<"..">>

\* The shape of the fields refuses the path.
ShapeRefuses(variant, path) ==
    IF variant.fields \in {"Unit", "Unnamed"}
    THEN \/ NamedParams(path) # {}
         \/ HasNamedSubRoute(path)
         \/ Cardinality(NamedParams(path) \cup UnnamedParams(path))
            + (IF path.sub_route # <<>> THEN 1 ELSE 0) # variant.len
    ELSE \/ UnnamedParams(path) # {}
         \/ HasUnnamedSubRoute(path)

\* C26: from_variant fails when a route attribute of a unit or positional variant
\* has a named parameter or a named sub-route, or as many parameters and sub-route
\* as the variant has no fields; when a route attribute of a variant of named
\* fields has an unnamed parameter or an unnamed sub-route; when the variant has no
\* route attribute; when a positional field carries #[query_param].
C26_FieldShape ==
    cop = "from_variant" =>
        /\ (\E i \in RoutePositions : ShapeRefuses(c_variant, c_attrs[i].path))
            => ~c_result.ok
        /\ RoutePositions = {} => ~c_result.ok
        /\ (c_variant.fields = "Unnamed"
            /\ \E i \in 1..c_variant.len : c_variant.query_param[i])
            => ~c_result.ok

\* "/a/:" on V(T, U): one parameter for two fields.
C26_Witness ==
    /\ cop = "from_variant"
    /\ c_variant = Variant("Unnamed", <<FALSE, FALSE>>)
    /\ c_attrs = <<RouteAttr(p_unnamed, {})>>
    /\ c_result = Err(WrongNumber)

\* "/a/:name" on V(T), "/a/.." on V { name: T }, no route, #[query_param] in V(T).
C26_WitnessNamed ==
    /\ cop = "from_variant"
    /\ c_variant = Variant("Unnamed", <<FALSE>>)
    /\ c_attrs = <<RouteAttr(p_named, {})>>
    /\ c_result = Err(OnlyUnnamed)
C26_WitnessUnnamed ==
    /\ cop = "from_variant"
    /\ c_variant = Variant("Named", <<FALSE>>)
    /\ c_attrs = <<RouteAttr(p_a_unnamed_sub, {})>>
    /\ c_result = Err(OnlyNamed)
C26_WitnessNoRoute ==
    /\ cop = "from_variant"
    /\ c_variant = Variant("Unit", <<>>)
    /\ c_attrs = <<OtherAttr>>
    /\ c_result = Err(AtLeastOneRoute)
C26_WitnessQueryParam ==
    /\ cop = "from_variant"
    /\ c_variant = Variant("Unnamed", <<TRUE>>)
    /\ c_attrs = <<RouteAttr(p_unnamed, {})>>
    /\ c_result = Err(NamedFieldsOnly)

\* "/a/:name" on V { name: T, #[query_param] q: U } compiles: the fields of a variant
\* of named fields are not counted.
C26_WitnessOk ==
    /\ cop = "from_variant"
    /\ c_variant = Variant("Named", <<FALSE, TRUE>>)
    /\ c_attrs = <<RouteAttr(p_named, {})>>
    /\ c_result = Ok(<<LocalizedRoute(p_named, {})>>, <<2>>)

\* route_handler: a localized route of no locale is RouteLocales::Any, which accept
\* takes for every locale; another is RouteLocales::Some of its locales.
EntryAccepts(localized_route, locale) ==
    \/ localized_route.locales = {}
    \/ locale \in localized_route.locales

\* What the attributes of a path declare: any locale if one of them has no locale,
\* and the locales of all of them.
DeclaresAny(path) ==
    \E i \in RoutePositions : c_attrs[i].path = path /\ c_attrs[i].locales = {}
DeclaredLocales(path) ==
    UNION {c_attrs[i].locales : i \in {j \in RoutePositions : c_attrs[j].path = path}}

\* C29: in the Route from_variant returns no two localized routes have equal paths,
\* and the localized route of a path accepts a locale exactly when an attribute of
\* that path has no locale or declares it.
C29_MergeKeepsDeclared ==
    (cop = "from_variant" /\ c_result.ok) =>
        /\ \A i, j \in 1..Len(c_result.localized_routes) :
               i # j => c_result.localized_routes[i].path
                        # c_result.localized_routes[j].path
        /\ \A k \in 1..Len(c_result.localized_routes) :
               \A locale \in Locales :
                   EntryAccepts(c_result.localized_routes[k], locale)
                   <=> \/ DeclaresAny(c_result.localized_routes[k].path)
                       \/ locale \in DeclaredLocales(c_result.localized_routes[k].path)

\* The paths of the Route returned are all different.
C29_PathsDiffer ==
    (cop = "from_variant" /\ c_result.ok) =>
        \A i, j \in 1..Len(c_result.localized_routes) :
            i # j => c_result.localized_routes[i].path
                     # c_result.localized_routes[j].path

\* The locales of attributes that all name locales are united.
C29_UnionOfNamed ==
    (cop = "from_variant" /\ c_result.ok) =>
        \A k \in 1..Len(c_result.localized_routes) :
            ~DeclaresAny(c_result.localized_routes[k].path) =>
                c_result.localized_routes[k].locales
                = DeclaredLocales(c_result.localized_routes[k].path)

\* #[route("/a")] #[route(en => "/a")] V compiles to one localized route, of "en".
C29_LostAny ==
    /\ cop = "from_variant"
    /\ c_variant = Variant("Unit", <<>>)
    /\ c_attrs = <<RouteAttr(p_a_only, {}), RouteAttr(p_a_only, {"en"})>>
    /\ c_result = Ok(<<LocalizedRoute(p_a_only, {"en"})>>, <<>>)

-----------------------------------------------------------------------------
(* The static ROUTER of parse_with_accepted_locales.  The function the      *)
(* derive macro writes for an enum holds                                     *)
(*     static ROUTER: Lazy<Router<u32>> = Lazy::new(|| { .. });              *)
(* and every call begins with ROUTER.recognize(url), which forces the cell. *)
(* The cell is once_cell::sync::Lazy: a state that goes from Incomplete to  *)
(* Running to Complete, moved by compare and swap; the thread that moves it *)
(* to Running runs the closure, a thread that finds it Running parks until  *)
(* it is Complete.  The closure is a step for Router::new() and each        *)
(* router.add, so that threads interleave with a router half built.         *)

\* The most threads calling parse, and the most calls of each.
MaxThreads == 2
MaxCalls == 2

Threads == 1..MaxThreads

\* The enums whose ROUTER is forced.
LazyEnums == {TypedEnum, StarMid, StarTop}

\* A cell that lets a thread in while another runs the closure.
force_unguarded(cell) ==
    IF cell = "Complete" THEN "read" ELSE "build"

\* Lazy::force, OnceCell::get_or_init: what a thread does on the state it finds.
force(cell) ==
    CASE cell = "Complete" -> "read"
      [] cell = "Incomplete" -> "build"
      [] OTHER -> "wait"

\* An enum, its ROUTER not forced, and the threads before their calls.
LazyInit ==
    /\ z_routes \in LazyEnums
    /\ z_cell = "Incomplete"
    /\ z_value = <<>>
    /\ z_router = [t \in Threads |-> NewRouter]
    /\ z_next = [t \in Threads |-> 0]
    /\ z_pc = [t \in Threads |-> "idle"]
    /\ z_seen = [t \in Threads |-> <<>>]
    /\ z_done = [t \in Threads |-> 0]
    /\ z_builds = 0
    /\ MainIdle
    /\ QueryIdle
    /\ CompileIdle

\* A thread calls parse_with_accepted_locales and comes to ROUTER.recognize(url).
LazyCall(t) ==
    /\ z_pc[t] = "idle"
    /\ z_done[t] < MaxCalls
    /\ z_pc' = [z_pc EXCEPT ![t] = "force"]
    /\ UNCHANGED <<z_routes, z_cell, z_value, z_router, z_next, z_seen, z_done, z_builds,
                   mainVars, localeVars, queryVars, compileVars>>

\* Deref of the Lazy: the cell is read and, if Incomplete, moved to Running in the
\* same atomic step; the thread that moved it enters the closure, at Router::new().
LazyForce(t) ==
    /\ z_pc[t] = "force"
    /\ z_pc' = [z_pc EXCEPT ![t] = force(z_cell)]
    /\ IF force(z_cell) = "build"
       THEN /\ z_cell' = "Running"
            /\ z_builds' = z_builds + 1
            /\ z_router' = [z_router EXCEPT ![t] = NewRouter]
            /\ z_next' = [z_next EXCEPT ![t] = 0]
       ELSE UNCHANGED <<z_cell, z_builds, z_router, z_next>>
    /\ UNCHANGED <<z_routes, z_value, z_seen, z_done,
                   mainVars, localeVars, queryVars, compileVars>>

\* The closure: router.add(path, i) for the next entry.
LazyAdd(t) ==
    /\ z_pc[t] = "build"
    /\ z_next[t] < Len(Entries(z_routes, 1))
    /\ z_router' =
           [z_router EXCEPT ![t] =
               The({add(@, path_to_route_recognizer_path(
                               z_routes[e.route].localized_routes[e.localized].path),
                        z_next[t])
                    : e \in {Entries(z_routes, 1)[z_next[t] + 1]}})]
    /\ z_next' = [z_next EXCEPT ![t] = @ + 1]
    /\ UNCHANGED <<z_routes, z_cell, z_value, z_pc, z_seen, z_done, z_builds,
                   mainVars, localeVars, queryVars, compileVars>>

\* The closure returns `router`: the cell takes the value and becomes Complete.
LazyFinish(t) ==
    /\ z_pc[t] = "build"
    /\ z_next[t] = Len(Entries(z_routes, 1))
    /\ z_value' = <<z_router[t]>>
    /\ z_cell' = "Complete"
    /\ z_pc' = [z_pc EXCEPT ![t] = "read"]
    /\ UNCHANGED <<z_routes, z_router, z_next, z_seen, z_done, z_builds,
                   mainVars, localeVars, queryVars, compileVars>>

\* A parked thread is woken once the cell is Complete.
LazyWake(t) ==
    /\ z_pc[t] = "wait"
    /\ z_cell = "Complete"
    /\ z_pc' = [z_pc EXCEPT ![t] = "read"]
    /\ UNCHANGED <<z_routes, z_cell, z_value, z_router, z_next, z_seen, z_done, z_builds,
                   mainVars, localeVars, queryVars, compileVars>>

\* recognize runs on the router the cell holds, and the call goes on to return.
LazyRecognize(t) ==
    /\ z_pc[t] = "read"
    /\ z_seen' = [z_seen EXCEPT ![t] = z_value]
    /\ z_done' = [z_done EXCEPT ![t] = @ + 1]
    /\ z_pc' = [z_pc EXCEPT ![t] = "idle"]
    /\ UNCHANGED <<z_routes, z_cell, z_value, z_router, z_next, z_builds,
                   mainVars, localeVars, queryVars, compileVars>>

LazyNext ==
    \/ \E t \in Threads : LazyCall(t)
    \/ \E t \in Threads : LazyForce(t)
    \/ \E t \in Threads : LazyAdd(t)
    \/ \E t \in Threads : LazyFinish(t)
    \/ \E t \in Threads : LazyWake(t)
    \/ \E t \in Threads : LazyRecognize(t)

LazySpec == LazyInit /\ [][LazyNext]_vars

\* C22: whatever way the threads interleave, the closure of ROUTER is entered at
\* most once; once a call has recognized its url the closure has run exactly once;
\* and the router a call recognizes against is the whole table of the enum, never
\* one that lacks an entry, in a first call and in the later ones.
C22_BuiltOnce ==
    /\ z_builds <= 1
    /\ \A t \in DOMAIN z_pc :
           (z_done[t] > 0 \/ z_pc[t] = "read") =>
               /\ z_builds = 1
               /\ z_cell = "Complete"
               /\ z_value = <<ROUTER(z_routes)>>
    /\ \A t \in DOMAIN z_pc : z_done[t] > 0 => z_seen[t] = <<ROUTER(z_routes)>>

\* Both threads have made their two calls, each against the whole table of the four
\* entries of the enum, and the closure was entered once.
C22_Witness ==
    /\ z_pc # <<>>
    /\ \A t \in Threads : z_done[t] = 2 /\ z_seen[t] = <<ROUTER(z_routes)>>
    /\ z_builds = 1
    /\ Len(Entries(z_routes, 1)) = 4

\* A thread is parked while the other has added two of the four entries.
C22_WitnessParked ==
    /\ z_pc # <<>>
    /\ z_pc[1] = "build"
    /\ z_next[1] = 2
    /\ z_pc[2] = "wait"
    /\ Len(Entries(z_routes, 1)) = 4
    /\ z_router[1] # ROUTER(z_routes)

=============================================================================
